---- MODULE Spec2Model ----
(***************************************************************************)
(* Verification model of OBJ2PMaker: the Plane Maker body importer         *)
(* (src/extractBodies.py) and the older topology pipeline                  *)
(* (src/files/OLD/cis_bodies2pm_working.py).                               *)
(*                                                                         *)
(* Text is modelled as it is in Python: a string is a sequence of          *)
(* one-character strings, a file is a sequence of such lines.  Prefix      *)
(* tests, trimming, decimal and fixed-point formatting are computed on the *)
(* characters.                                                             *)
(***************************************************************************)
EXTENDS Integers, Sequences, FiniteSets, TLC

VARIABLES
    pc,               \* position of the operation under way
    \* replace_body_block (src/extractBodies.py)
    acf_lines,        \* the document read from the ACF file
    body_index,       \* the body index addressed
    new_block,        \* the block to insert
    block_kind,       \* where new_block came from: "free", "builder", "current"
    new_acf,          \* the returned line list
    runs,             \* number of patches applied so far
    \* generate_geo_xyz_literal_from_stations (src/extractBodies.py)
    stations_mesh,    \* the stations of the mesh, each a list of vertices
    target_i,         \* stations of the target grid
    target_j,         \* slots per station of the target grid
    geo_lines,        \* the returned lines
    \* build_body_block_lines (src/files/OLD/cis_bodies2pm_working.py)
    bodies,           \* the bodies built from the OBJ file
    total_stations,   \* stations of the target grid
    points_per_ring,  \* slots per station of the target grid
    body_lines,       \* the returned lines
    \* build_body_block_from_template (src/files/OLD/cis_bodies2pm_working.py)
    template_file,    \* the text of the template file
    built,            \* the outcome: the error raised or the block returned
    \* the files of a conversion run: ImporterGUI.run_once
    \* (src/extractBodies.py) and rewrite_acf_bodies
    \* (src/files/OLD/cis_bodies2pm_working.py)
    fs,               \* the file system: what each path holds
    fs_start,         \* the file system when the run started
    acf_path,         \* path of the input ACF file
    obj_path,         \* path of the OBJ file
    out_path,         \* path of the output ACF file
    error,            \* the exception raised, "" when none
    \* the entries and locals of ImporterGUI.run_once
    entry_body_index,      \* text of the "Body index" entry
    entry_verts_per_loop,  \* text of the "Verts per loop" entry
    vpl,              \* the vertices per loop entered
    loaded_groups,    \* groups: the groups loaded from the OBJ file
    verts_centered,   \* verts: the vertices of the selected group, recentred
    \* topology stationing (src/files/OLD/cis_bodies2pm_working.py)
    mesh_verts,       \* verts_m: the vertices of the group
    mesh_faces,       \* faces: the faces of the group, lists of vertex numbers
    set_iteration,    \* the order in which Python lists a set of vertices
    adjacency,        \* the value of build_vertex_adjacency
    layering,         \* the value of compute_topological_layers
    grouping,         \* the outcome of build_station_vertex_groups
    pm_rings,         \* the outcome of build_pm_rings_for_mesh
    \* generate_bodies_and_rewrite_acf
    \* (src/files/OLD/cis_bodies2pm_working.py)
    obj_groups,       \* groups: the groups of the OBJ file with their faces
    mesh_rows         \* the rows of the table: mesh name, body index, name

patchVars == <<acf_lines, body_index, new_block, block_kind, new_acf, runs>>
gridVars == <<stations_mesh, target_i, target_j, geo_lines>>
linesVars == <<bodies, total_stations, points_per_ring, body_lines>>

templateVars == <<template_file, built>>
fileVars == <<fs, fs_start, acf_path, obj_path, out_path, error>>
entryVars ==
    <<entry_body_index, entry_verts_per_loop, vpl, loaded_groups,
      verts_centered>>

topoVars ==
    <<mesh_verts, mesh_faces, set_iteration, adjacency, layering, grouping,
      pm_rings>>

genVars == <<obj_groups, mesh_rows>>

vars ==
    <<pc, patchVars, gridVars, linesVars, templateVars, fileVars, entryVars,
      topoVars, genVars>>

\* the variables of an operation that a specification does not exercise
PatchIdle ==
    /\ acf_lines = <<>>
    /\ new_block = <<>>
    /\ block_kind = "free"
    /\ new_acf = <<>>
    /\ runs = 0

GridIdle ==
    /\ stations_mesh = <<>>
    /\ target_i = 0
    /\ target_j = 0
    /\ geo_lines = <<>>

LinesIdle ==
    /\ bodies = <<>>
    /\ total_stations = 0
    /\ points_per_ring = 0
    /\ body_lines = <<>>

TemplateIdle ==
    /\ template_file = <<>>
    /\ built = <<>>

FilesIdle ==
    /\ fs = <<>>
    /\ fs_start = <<>>
    /\ acf_path = <<>>
    /\ obj_path = <<>>
    /\ out_path = <<>>
    /\ error = ""

EntryIdle ==
    /\ entry_body_index = <<>>
    /\ entry_verts_per_loop = <<>>
    /\ vpl = 0
    /\ loaded_groups = <<>>
    /\ verts_centered = <<>>

TopoIdle ==
    /\ mesh_verts = <<>>
    /\ mesh_faces = <<>>
    /\ set_iteration = "ascending"
    /\ adjacency = <<>>
    /\ layering = <<>>
    /\ grouping = <<>>
    /\ pm_rings = <<>>

GenIdle ==
    /\ obj_groups = <<>>
    /\ mesh_rows = <<>>

----------------------------------------------------------------------------
(* Bounds of the model *)

\* longest document drawn as input of the patcher
MaxDocLen == 3

\* number of consecutive patches of one document
MaxRuns == 2

\* longest ACF document drawn as input of rewrite_acf_bodies
MaxAcfLen == 5

\* largest number of mid rings of a mesh drawn for topology stationing
MaxMidRings == 2

\* longest face list drawn for the small meshes of topology stationing
MaxFaces == 2

\* most vertices of a group cut by z, greatest vertices per loop
MaxVerts == 7

MaxLoop == 3

\* longest line list drawn as input of read_target_dims_from_acf
MaxDimLen == 3

\* longest template drawn as input of the template filler
MaxTemplateLen == 3

\* longest station list drawn as input of the grid mapper
MaxStations == 3

\* largest target station count drawn
MaxTargetI == 3

\* largest target slot count drawn
MaxTargetJ == 4

\* largest station and slot count drawn for the print order
MaxOrder == 12

\* longest table of mesh rows drawn
MaxRows == 2

----------------------------------------------------------------------------
(* Python string primitives *)

\* str.lstrip()/strip() remove these (the ASCII whitespace the inputs use)
Whitespace == {" ", "\t"}

Digits == <<"0","1","2","3","4","5","6","7","8","9">>

RECURSIVE DecNat(_)
\* str(n) for n >= 0
DecNat(n) ==
    IF n < 10 THEN <<Digits[n + 1]>>
    ELSE DecNat(n \div 10) \o <<Digits[(n % 10) + 1]>>

\* str(n) / f"{n}" / f"{n:d}" of an int
Dec(n) == IF n < 0 THEN <<"-">> \o DecNat(-n) ELSE DecNat(n)

RECURSIVE lstrip(_)
\* str.lstrip()
lstrip(s) ==
    IF s # <<>> /\ Head(s) \in Whitespace THEN lstrip(Tail(s)) ELSE s

RECURSIVE rstrip(_)
\* str.rstrip()
rstrip(s) ==
    IF s # <<>> /\ s[Len(s)] \in Whitespace
    THEN rstrip(SubSeq(s, 1, Len(s) - 1))
    ELSE s

\* str.strip()
strip(s) == rstrip(lstrip(s))

\* str.startswith(p)
startswith(s, p) == Len(s) >= Len(p) /\ SubSeq(s, 1, Len(p)) = p

\* list slicing l[a:b] for 0 <= a: b is clamped to len(l), a negative b
\* counts from the end
Slice(l, a, b) ==
    LET e == IF b < 0 THEN (IF Len(l) + b < 0 THEN 0 ELSE Len(l) + b)
             ELSE IF b > Len(l) THEN Len(l) ELSE b
    IN  SubSeq(l, a + 1, e)

\* An optional value: None, or Some(v) holding v
None == <<>>
Some(v) == <<v>>
Get(o) == o[1]

----------------------------------------------------------------------------
(* Text literals of the ACF format *)

S_P_BODY == <<"P"," ","_","b","o","d","y","/">>
S_SLASH == <<"/">>
S_PROPERTIES_BEGIN == <<"P","R","O","P","E","R","T","I","E","S","_","B","E","G","I","N">>
S_PROPERTIES_END == <<"P","R","O","P","E","R","T","I","E","S","_","E","N","D">>

\* prefix = f"P _body/{body_index}/"
BodyPrefix(b) == S_P_BODY \o Dec(b) \o S_SLASH

----------------------------------------------------------------------------
(* Numbers.  A mesh coordinate is an integer count of 10^-4 m.  A value    *)
(* in feet is a sign and a magnitude with nine decimals, ip + fp / 10^9,   *)
(* which is what the format '.9f' prints; the sign is kept apart because   *)
(* Python prints -0.0 as '-0.000000000'.                                   *)

\* FT_PER_M = 3.28084: nano-feet in 10^-4 m
FT_PER_M == 328084

MkVal(neg, mag) ==
    [neg |-> neg, ip |-> mag \div 1000000000, fp |-> mag % 1000000000]

Abs(n) == IF n < 0 THEN -n ELSE n

\* the float 0.0
ZeroVal == MkVal(FALSE, 0)

\* c * FT_PER_M, the product formed in two parts so that a coordinate of
\* several metres stays within the integers of the checker
Ft(c) ==
    LET a == Abs(c)
        thousands == a * (FT_PER_M \div 1000)
        units == a * (FT_PER_M % 1000)
        low == (thousands % 1000000) * 1000 + units
    IN  [neg |-> c < 0,
         ip |-> (thousands \div 1000000) + (low \div 1000000000),
         fp |-> low % 1000000000]

\* -v
VNeg(v) == [v EXCEPT !.neg = ~v.neg]

\* v + n for a value v >= 0 and a whole number of feet n >= 0
VAddFeet(v, n) == [v EXCEPT !.ip = v.ip + n]

\* (total / n) * FT_PER_M, rounded to the ninth decimal (ties to even);
\* the division is carried out on the two parts of the product
MeanFt(total, n) ==
    LET num == Ft(Abs(total))
        rest == num.ip % n
        low == rest * (1000000000 % n) + num.fp
        q == rest * (1000000000 \div n) + (low \div n)
        r == low % n
        up == (2 * r > n) \/ (2 * r = n /\ q % 2 = 1)
        rounded == IF up THEN q + 1 ELSE q
    IN  [neg |-> total < 0,
         ip |-> (num.ip \div n) + (rounded \div 1000000000),
         fp |-> rounded % 1000000000]

\* a <= b on magnitudes
MagLeq(a, b) == a.ip < b.ip \/ (a.ip = b.ip /\ a.fp <= b.fp)

RECURSIVE PadDigits(_, _)
\* the last w decimal digits of n, zero-padded
PadDigits(n, w) ==
    IF w = 0 THEN <<>>
    ELSE PadDigits(n \div 10, w - 1) \o <<Digits[(n % 10) + 1]>>

\* f"{v:.9f}"
Fmt9(v) ==
    (IF v.neg THEN <<"-">> ELSE <<>>)
        \o DecNat(v.ip) \o <<".">> \o PadDigits(v.fp, 9)

RECURSIVE SumSeq(_)
\* sum(s)
SumSeq(s) == IF s = <<>> THEN 0 ELSE Head(s) + SumSeq(Tail(s))

Max2(a, b) == IF a > b THEN a ELSE b

\* max(s, default=d) of a list of integers
MaxOf(s, d) ==
    IF s = <<>> THEN d
    ELSE CHOOSE m \in {s[i] : i \in 1..Len(s)} :
            \A i \in 1..Len(s) : s[i] <= m

----------------------------------------------------------------------------
(* Grid mapper of the importer: src/extractBodies.py *)

S_GEO_XYZ == <<"_","g","e","o","_","x","y","z","/">>
S_COMMA == <<",">>
S_SPACE == <<" ">>

\* mutant: truncation keeps the last target_i stations
pad_or_truncate_stations_KeepLast(stations, ti) ==
    IF Len(stations) = ti THEN stations
    ELSE IF Len(stations) > ti
         THEN SubSeq(stations, Len(stations) - ti + 1, Len(stations))
         ELSE stations \o [n \in 1..(ti - Len(stations)) |-> <<>>]

\* mutant: a short station list is not padded
pad_or_truncate_stations_NoPad(stations, ti) ==
    IF Len(stations) > ti THEN Slice(stations, 0, ti) ELSE stations

\* mutant: padding repeats the last station
pad_or_truncate_stations_RepeatLast(stations, ti) ==
    IF Len(stations) = ti THEN stations
    ELSE IF Len(stations) > ti THEN Slice(stations, 0, ti)
         ELSE stations \o [n \in 1..(ti - Len(stations)) |->
                              IF stations = <<>> THEN <<>>
                              ELSE stations[Len(stations)]]

pad_or_truncate_stations(stations, ti) ==
    IF Len(stations) = ti THEN stations
    ELSE IF Len(stations) > ti THEN Slice(stations, 0, ti)
         ELSE stations \o [n \in 1..(ti - Len(stations)) |-> <<>>]

\* the last non-empty station, 0-based; -1 when there is none
LastNonEmptyIdx(stations) ==
    IF \E n \in 1..Len(stations) : stations[n] # <<>>
    THEN (CHOOSE n \in 1..Len(stations) :
             /\ stations[n] # <<>>
             /\ \A m \in (n + 1)..Len(stations) : stations[m] = <<>>) - 1
    ELSE -1

RECURSIVE SortByYDesc(_)
\* sorted(pos, key=lambda v: v[1], reverse=True): stable, equal keys keep
\* their order
SortByYDesc(vs) ==
    IF vs = <<>> THEN <<>>
    ELSE LET init == SortByYDesc(SubSeq(vs, 1, Len(vs) - 1))
             v == vs[Len(vs)]
             Before(u) == u[2] >= v[2]
             After(u) == u[2] < v[2]
         IN  SelectSeq(init, Before) \o <<v>> \o SelectSeq(init, After)

\* pos = [v for v in verts_here if v[0] >= 0.0] or verts_here[:]
PositiveHalf(verts_here) ==
    LET NonNeg(v) == v[1] >= 0
        pos == SelectSeq(verts_here, NonNeg)
    IN  IF pos # <<>> THEN pos ELSE verts_here

\* J = max(2, int(target_j))
SlotCount(tj) == Max2(2, tj)

\* the dictionary 'cell' after the loop over pos_sorted, read at slot j:
\* the last vertex written to the slot, or 0.0 (cell.get default)
MidSlot(verts_here, J, j) ==
    LET half == J \div 2
        pos_sorted == SortByYDesc(PositiveHalf(verts_here))
        n_right == Max2(1, half)           \* max(1, len(js_right))
        n_left == Max2(1, J - half)        \* max(1, len(js_left))
        \* js_right[idx % n_right] = idx % n_right
        \* js_left[idx % n_left] = J - 1 - idx % n_left
        hits == {idx \in 0..(Len(pos_sorted) - 1) :
                    \/ idx % n_right = j
                    \/ J - 1 - (idx % n_left) = j}
    IN  IF hits = {} THEN <<ZeroVal, ZeroVal, ZeroVal>>
        ELSE LET idx == CHOOSE h \in hits : \A g \in hits : g <= h
                 v == pos_sorted[idx + 1]
             IN  IF j < half
                 THEN <<Ft(v[1]), Ft(v[2]), Ft(v[3])>>
                 ELSE <<VNeg(Ft(v[1])), Ft(v[2]), Ft(v[3])>>

\* tip and tail: x = 0, y and z the means over the station's vertices
BroadcastSlot(verts_here) ==
    LET ys == [n \in 1..Len(verts_here) |-> verts_here[n][2]]
        zs == [n \in 1..Len(verts_here) |-> verts_here[n][3]]
    IN  <<ZeroVal, MeanFt(SumSeq(ys), Len(ys)), MeanFt(SumSeq(zs), Len(zs))>>

\* the (x, y, z) of station i, slot j, as the loop body emits them
StationSlot(stations, i, j, J, with_tip_tail) ==
    LET verts_here == stations[i + 1]
        is_tip == with_tip_tail /\ i = 0
        is_tail == with_tip_tail /\ i = LastNonEmptyIdx(stations)
    IN  IF verts_here = <<>> THEN <<ZeroVal, ZeroVal, ZeroVal>>
        ELSE IF is_tip \/ is_tail THEN BroadcastSlot(verts_here)
        ELSE MidSlot(verts_here, J, j)

\* f"P _body/{body_index}/_geo_xyz/{i},{j},{k} {v:.9f}"
GeoLine(b, i, j, k, v) ==
    BodyPrefix(b) \o S_GEO_XYZ \o Dec(i) \o S_COMMA \o Dec(j) \o S_COMMA
        \o Dec(k) \o S_SPACE \o Fmt9(v)

generate_geo_xyz_literal_from_stations(mesh, b, ti, tj, with_tip_tail) ==
    LET stations == pad_or_truncate_stations(mesh, ti)
        J == SlotCount(tj)
    IN  [n \in 1..(Len(stations) * J * 3) |->
            LET i == (n - 1) \div (3 * J)
                j == ((n - 1) % (3 * J)) \div 3
                k == (n - 1) % 3
            IN  GeoLine(b, i, j, k,
                        StationSlot(stations, i, j, J, with_tip_tail)[k + 1])]

----------------------------------------------------------------------------
(* Body block builder of the importer: src/extractBodies.py *)

\* mutant: only the x extent is measured
compute_grid_radius_ft_XOnly(verts) ==
    IF verts = <<>> THEN VAddFeet(ZeroVal, 5)
    ELSE LET max_abs_x == MaxOf([n \in 1..Len(verts) |-> Abs(verts[n][1])], 0)
         IN  VAddFeet(Ft(max_abs_x), 3)

\* max(|x|, |y|) of the vertices in feet plus 3.0; 5.0 for no vertex
compute_grid_radius_ft(verts) ==
    IF verts = <<>> THEN VAddFeet(ZeroVal, 5)
    ELSE LET max_abs_x == MaxOf([n \in 1..Len(verts) |-> Abs(verts[n][1])], 0)
             max_abs_y == MaxOf([n \in 1..Len(verts) |-> Abs(verts[n][2])], 0)
         IN  VAddFeet(Ft(Max2(max_abs_x, max_abs_y)), 3)

\* f"P _body/{body_index}/<text>"
BodyLine(b, text) == BodyPrefix(b) \o text

\* for i in range(target_i): for j in range(target_j): "_locked/{i},{j} 0"
LockedLines(b, ti, tj) ==
    LET ni == Max2(0, ti)
        nj == Max2(0, tj)
    IN  [n \in 1..(ni * nj) |->
            BodyLine(b, <<"_","l","o","c","k","e","d","/">> \o Dec((n - 1) \div nj) \o S_COMMA
                          \o Dec((n - 1) % nj) \o <<" ","0">>)]

build_body_block(b, mesh, local_verts_centered, ti, tj, lateral_offset_ft) ==
    LET station_count_mesh == Len(mesh)
        grid_radius_ft == compute_grid_radius_ft(local_verts_centered)
    IN  << BodyLine(b, <<"_","b","o","t","_","s","1"," ","0",".","0","0","0","0","0","0","0","0","0">>),
           BodyLine(b, <<"_","b","o","t","_","s","2"," ","1",".","0","0","0","0","0","0","0","0","0">>),
           BodyLine(b, <<"_","b","o","t","_","t","1"," ","0",".","0","0","0","0","0","0","0","0","0">>),
           BodyLine(b, <<"_","b","o","t","_","t","2"," ","1",".","0","0","0","0","0","0","0","0","0">>),
           BodyLine(b, <<"_","e","n","g","n","_","f","o","r","_","b","o","d","y"," ","-","1">>),
           BodyLine(b, <<"_","g","e","a","r","_","f","o","r","_","b","o","d","y"," ","-","1">>) >>
        \o generate_geo_xyz_literal_from_stations(mesh, b, ti,
                                                  tj, TRUE)
        \o LockedLines(b, ti, tj)
        \o << BodyLine(b, <<"_","l","o","c","k","e","d","/","i","_","c","o","u","n","t"," ">> \o Dec(ti)),
              BodyLine(b, <<"_","l","o","c","k","e","d","/","j","_","c","o","u","n","t"," ">> \o Dec(tj)),
              BodyLine(b, <<"_","r","_","d","i","m"," ">> \o Dec(tj)),
              BodyLine(b, <<"_","s","_","d","i","m"," ">> \o Dec(station_count_mesh)),
              BodyLine(b, <<"_","p","a","r","t","_","a","r","e","a","_","r","u","l","e"," ","1",".","0","0","0","0","0","0","0","0","0">>),
              BodyLine(b, <<"_","p","a","r","t","_","c","d"," ","0",".","0","7","5","0","0","0","0","0","3">>),
              BodyLine(b, <<"_","p","a","r","t","_","p","h","i"," ","0",".","0","0","0","0","0","0","0","0","0">>),
              BodyLine(b, <<"_","p","a","r","t","_","p","s","i"," ","0",".","0","0","0","0","0","0","0","0","0">>),
              BodyLine(b, <<"_","p","a","r","t","_","r","a","d"," ">> \o Fmt9(grid_radius_ft)),
              BodyLine(b, <<"_","p","a","r","t","_","s","p","e","c","s","_","e","q"," ","1">>),
              BodyLine(b, <<"_","p","a","r","t","_","s","p","e","c","s","_","i","n","v","i","s"," ","0">>),
              BodyLine(b, <<"_","p","a","r","t","_","s","p","e","c","s","_","r","m","o","d"," ","1">>),
              BodyLine(b, <<"_","p","a","r","t","_","t","e","x"," ","1">>),
              BodyLine(b, <<"_","p","a","r","t","_","t","h","e"," ","0",".","0","0","0","0","0","0","0","0","0">>),
              BodyLine(b, <<"_","p","a","r","t","_","x"," ">> \o Fmt9(lateral_offset_ft)),
              BodyLine(b, <<"_","p","a","r","t","_","y"," ","0",".","0","0","0","0","0","0","0","0","0">>),
              BodyLine(b, <<"_","p","a","r","t","_","z"," ","0",".","0","0","0","0","0","0","0","0","0">>),
              BodyLine(b, <<"_","t","o","p","_","s","1"," ","0",".","0","0","0","0","0","0","0","0","0">>),
              BodyLine(b, <<"_","t","o","p","_","s","2"," ","1",".","0","0","0","0","0","0","0","0","0">>),
              BodyLine(b, <<"_","t","o","p","_","t","1"," ","0",".","0","0","0","0","0","0","0","0","0">>),
              BodyLine(b, <<"_","t","o","p","_","t","2"," ","1",".","0","0","0","0","0","0","0","0","0">>) >>

----------------------------------------------------------------------------
(* Inputs of the z-sorted pipeline: src/extractBodies.py                   *)

\* An OBJ file is held as its statements, the lines load_obj_groups acts
\* on after its tokenisation: [k |-> "v", xyz |-> <<x, y, z>>],
\* [k |-> "g", name |-> n] and [k |-> "f", idx |-> <<the 1-based vertex
\* numbers of the face tokens>>].
S_DEFAULT == "default"
S_FUSELAGE == "fuselage"

\* group_to_indices[current_group]: the defaultdict creates the entry
TouchGroup(st, name) ==
    IF \E n \in 1..Len(st.order) : st.order[n] = name THEN st
    ELSE [st EXCEPT !.order = Append(@, name),
                    !.idx = [g \in DOMAIN @ \cup {name} |->
                                IF g \in DOMAIN @ THEN @[g] ELSE {}]]

\* one line of the file
ObjStatement(st, s) ==
    IF s.k = "v" THEN [st EXCEPT !.verts = Append(@, s.xyz)]
    ELSE IF s.k = "g" THEN [TouchGroup(st, s.name) EXCEPT !.cur = s.name]
    ELSE IF st.verts = <<>> THEN st
    ELSE [st EXCEPT !.idx[st.cur] =
             @ \cup {s.idx[n] - 1 : n \in
                       {m \in 1..Len(s.idx) :
                           0 <= s.idx[m] - 1 /\ s.idx[m] - 1 < Len(st.verts)}}]

RECURSIVE ObjStatements(_, _)
ObjStatements(st, file) ==
    IF file = <<>> THEN st
    ELSE ObjStatements(ObjStatement(st, Head(file)), Tail(file))

RECURSIVE SortedSet(_)
\* sorted(idxs)
SortedSet(S) ==
    IF S = {} THEN <<>>
    ELSE LET m == CHOOSE x \in S : \A y \in S : x <= y
         IN  <<m>> \o SortedSet(S \ {m})

\* the groups with at least one face index, in the order they were first
\* named: a sequence of [name, verts]
load_obj_groups(file) ==
    LET st == ObjStatements([verts |-> <<>>, order |-> <<S_DEFAULT>>,
                             idx |-> [g \in {S_DEFAULT} |-> {}],
                             cur |-> S_DEFAULT], file)
        HasFaces(name) == st.idx[name] # {}
        names == SelectSeq(st.order, HasFaces)
    IN  [n \in 1..Len(names) |->
            [name |-> names[n],
             verts |-> LET idxs == SortedSet(st.idx[names[n]])
                       IN  [m \in 1..Len(idxs) |-> st.verts[idxs[m] + 1]]]]

RECURSIVE LastToken(_)
\* t.split()[-1] of a stripped, non-empty t
LastToken(t) ==
    IF t = <<>> \/ t[Len(t)] \in Whitespace THEN <<>>
    ELSE LastToken(SubSeq(t, 1, Len(t) - 1)) \o <<t[Len(t)]>>

DigitValue(c) == CHOOSE d \in 0..9 : Digits[d + 1] = c

RECURSIVE NatValue(_)
NatValue(ds) ==
    IF ds = <<>> THEN 0
    ELSE 10 * NatValue(SubSeq(ds, 1, Len(ds) - 1)) + DigitValue(ds[Len(ds)])

IsDigits(ds) ==
    /\ ds # <<>>
    /\ \A n \in 1..Len(ds) : \E d \in 1..10 : Digits[d] = ds[n]

\* int(text): an optional sign and decimal digits, with white space
\* around them allowed; None when it raises
ParseInt(text) ==
    LET tok == strip(text)
    IN
    IF IsDigits(tok) THEN Some(NatValue(tok))
    ELSE IF tok # <<>> /\ Head(tok) = "-" /\ IsDigits(Tail(tok))
         THEN Some(0 - NatValue(Tail(tok)))
    ELSE IF tok # <<>> /\ Head(tok) = "+" /\ IsDigits(Tail(tok))
         THEN Some(NatValue(Tail(tok)))
    ELSE None

S_LOCKED_I == <<"_","l","o","c","k","e","d","/","i","_","c","o","u","n","t">>
S_LOCKED_J == <<"_","l","o","c","k","e","d","/","j","_","c","o","u","n","t">>

DefaultICount == 20
DefaultJCount == 18

RECURSIVE ReadDimsFrom_IndexPrefix(_, _, _, _, _)
\* mutant: the body index is matched by its leading digits
ReadDimsFrom_IndexPrefix(lines, b, n, i_count, j_count) ==
    IF n > Len(lines) THEN <<i_count, j_count>>
    ELSE LET t == strip(lines[n])
             is_b == startswith(t, S_P_BODY \o Dec(b))
             Names(name) == \E k \in 1..Len(t) :
                                startswith(SubSeq(t, k, Len(t)),
                                           S_SLASH \o name)
             is_i == is_b /\ Names(S_LOCKED_I)
             is_j == is_b /\ ~is_i /\ Names(S_LOCKED_J)
             val == ParseInt(LastToken(t))
             ic == IF is_i /\ val # None THEN val ELSE i_count
             jc == IF is_j /\ val # None THEN val ELSE j_count
         IN  IF ic # None /\ jc # None THEN <<ic, jc>>
             ELSE ReadDimsFrom_IndexPrefix(lines, b, n + 1, ic, jc)

RECURSIVE ReadDimsFrom(_, _, _, _, _)
\* the loop of read_target_dims_from_acf from line n on
ReadDimsFrom(lines, b, n, i_count, j_count) ==
    IF n > Len(lines) THEN <<i_count, j_count>>
    ELSE LET t == strip(lines[n])
             is_i == startswith(t, BodyPrefix(b) \o S_LOCKED_I)
             is_j == ~is_i /\ startswith(t, BodyPrefix(b) \o S_LOCKED_J)
             val == ParseInt(LastToken(t))
             ic == IF is_i /\ val # None THEN val ELSE i_count
             jc == IF is_j /\ val # None THEN val ELSE j_count
         IN  IF ic # None /\ jc # None THEN <<ic, jc>>
             ELSE ReadDimsFrom(lines, b, n + 1, ic, jc)

read_target_dims_from_acf(lines, b) ==
    LET found == ReadDimsFrom(lines, b, 1, None, None)
    IN  <<IF found[1] = None THEN DefaultICount ELSE Get(found[1]),
          IF found[2] = None THEN DefaultJCount ELSE Get(found[2])>>

\* (min(xs) + max(xs)) / 2.0; the meshes of the model have even x
\* coordinates, so that the half is a whole number of units
compute_center_x(verts) ==
    IF verts = <<>> THEN 0
    ELSE LET xs == {verts[n][1] : n \in 1..Len(verts)}
             lo == CHOOSE x \in xs : \A y \in xs : x <= y
             hi == CHOOSE x \in xs : \A y \in xs : y <= x
         IN  (lo + hi) \div 2

recenter_vertices_x(verts, center_x) ==
    IF center_x = 0 THEN verts
    ELSE [n \in 1..Len(verts) |->
             <<verts[n][1] - center_x, verts[n][2], verts[n][3]>>]

\* mutant: the vertices are left in file order
SortByZ_Unsorted(vs) == vs

RECURSIVE SortByZ(_)
\* sorted(verts, key=lambda v: v[2]), stable
SortByZ(vs) ==
    IF vs = <<>> THEN <<>>
    ELSE LET init == SortByZ(SubSeq(vs, 1, Len(vs) - 1))
             v == vs[Len(vs)]
             Before(u) == u[3] <= v[3]
             After(u) == u[3] > v[3]
         IN  SelectSeq(init, Before) \o <<v>> \o SelectSeq(init, After)

RECURSIVE Chunks_WholeOnly(_, _)
\* mutant: a last slice shorter than verts_per_loop is left out
Chunks_WholeOnly(middle, verts_per_loop) ==
    IF Len(middle) < verts_per_loop \/ middle = <<>> THEN <<>>
    ELSE <<Slice(middle, 0, verts_per_loop)>>
             \o Chunks_WholeOnly(Slice(middle, verts_per_loop, Len(middle)),
                                 verts_per_loop)

RECURSIVE Chunks(_, _)
\* middle[off: off + verts_per_loop] for off = 0, verts_per_loop, ...
Chunks(middle, verts_per_loop) ==
    IF middle = <<>> THEN <<>>
    ELSE <<Slice(middle, 0, verts_per_loop)>>
             \o Chunks(Slice(middle, verts_per_loop, Len(middle)),
                       verts_per_loop)

build_stations_from_geometry(verts, verts_per_loop, with_tip_tail) ==
    LET v_sorted == SortByZ(verts)
        middle == Slice(v_sorted, 1, -1)
    IN  IF verts = <<>> THEN <<>>
        ELSE IF Len(v_sorted) < 1 + verts_per_loop + 1 THEN <<v_sorted>>
        ELSE (IF with_tip_tail THEN <<<<v_sorted[1]>>>> ELSE <<>>)
                 \o Chunks(middle, verts_per_loop)
                 \o (IF with_tip_tail THEN <<<<v_sorted[Len(v_sorted)]>>>>
                     ELSE <<>>)

\* zspan[g] of run_once
ZSpan(vs) ==
    LET zs == {vs[n][3] : n \in 1..Len(vs)}
    IN  IF vs = <<>> THEN 0
        ELSE (CHOOSE z \in zs : \A y \in zs : y <= z)
                 - (CHOOSE z \in zs : \A y \in zs : z <= y)

\* gsel: "fuselage" when it is a group, else the first group of the
\* largest z span; the position of the group in groups
SelectGroup(groups) ==
    IF \E n \in 1..Len(groups) : groups[n].name = S_FUSELAGE
    THEN CHOOSE n \in 1..Len(groups) : groups[n].name = S_FUSELAGE
    ELSE CHOOSE n \in 1..Len(groups) :
             /\ \A m \in 1..Len(groups) :
                    ZSpan(groups[m].verts) <= ZSpan(groups[n].verts)
             /\ \A m \in 1..(n - 1) :
                    ZSpan(groups[m].verts) < ZSpan(groups[n].verts)

----------------------------------------------------------------------------
(* Config patcher of the importer: src/extractBodies.py *)

\* l.lstrip().startswith(prefix)
IsBodyLine(l, b) == startswith(lstrip(l), BodyPrefix(b))

\* next((i for i, l in enumerate(acf_lines) if ...), default): 0-based
FirstBodyLine(lines, b, default) ==
    IF \E i \in 1..Len(lines) : IsBodyLine(lines[i], b)
    THEN (CHOOSE i \in 1..Len(lines) :
             /\ IsBodyLine(lines[i], b)
             /\ \A k \in 1..(i - 1) : ~IsBodyLine(lines[k], b)) - 1
    ELSE default

Min2(a, b) == IF a < b THEN a ELSE b

\* mutant: the prefix loses its closing slash, so body 1 also owns body 10
replace_body_block_LoosePrefix(lines, b, block) ==
    LET Loose(l) == startswith(lstrip(l), S_P_BODY \o Dec(b))
        Keep(l) == ~Loose(l)
        kept == SelectSeq(lines, Keep)
        first_pos == Min2(FirstBodyLine(lines, b, Len(kept)), Len(kept))
    IN  Slice(kept, 0, first_pos) \o block \o Slice(kept, first_pos, Len(kept))

\* mutant: the old block is not removed
replace_body_block_KeepOld(lines, b, block) ==
    LET kept == lines
        first_pos == Min2(FirstBodyLine(lines, b, Len(kept)), Len(kept))
    IN  Slice(kept, 0, first_pos) \o block \o Slice(kept, first_pos, Len(kept))

\* mutant: the block is always appended to the kept lines
replace_body_block_Append(lines, b, block) ==
    LET Keep(l) == ~IsBodyLine(l, b)
        kept == SelectSeq(lines, Keep)
    IN  kept \o block

replace_body_block(lines, b, block) ==
    LET Keep(l) == ~IsBodyLine(l, b)
        kept == SelectSeq(lines, Keep)
        first_pos == Min2(FirstBodyLine(lines, b, Len(kept)), Len(kept))
    IN  Slice(kept, 0, first_pos) \o block \o Slice(kept, first_pos, Len(kept))

----------------------------------------------------------------------------
(* Grid mapper of the topology pipeline:                                   *)
(* src/files/OLD/cis_bodies2pm_working.py                                  *)

\* for i in range(2, 10): if i < n and i not in order: order.append(i)
PmOrderTail(n, order) ==
    LET Wanted(i) == i < n /\ ~(\E m \in 1..Len(order) : order[m] = i)
    IN  SelectSeq(<<2, 3, 4, 5, 6, 7, 8, 9>>, Wanted)

\* mutant: the upper indices start at 9
PmOrderHead_From9(n) ==
    (IF n > 0 THEN <<0>> ELSE <<>>)
        \o (IF n > 1 THEN <<1>> ELSE <<>>)
        \o [m \in 1..Max2(0, n - 9) |-> 8 + m]

\* order = [0] if n > 0, [1] if n > 1, then range(10, n)
PmOrderHead(n) ==
    (IF n > 0 THEN <<0>> ELSE <<>>)
        \o (IF n > 1 THEN <<1>> ELSE <<>>)
        \o [m \in 1..Max2(0, n - 10) |-> 9 + m]       \* range(10, n)

_pm_i_print_order(total) ==
    PmOrderHead(total) \o PmOrderTail(total, PmOrderHead(total))

_pm_j_print_order(points) ==
    PmOrderHead(points) \o PmOrderTail(points, PmOrderHead(points))

ZeroPoint == <<ZeroVal, ZeroVal, ZeroVal>>

\* mutant: the real rings are taken from the end of the list
PaddedRings_KeepLast(rings, total, points) ==
    LET n_real == Max2(0, Min2(Len(rings), total))
    IN  [n \in 1..Max2(n_real, total) |->
            IF n <= n_real
            THEN LET ring == rings[Len(rings) - n_real + n]
                 IN  IF Len(ring) < points
                     THEN ring \o [m \in 1..(points - Len(ring)) |-> ZeroPoint]
                     ELSE ring
            ELSE [m \in 1..Max2(0, points) |-> ZeroPoint]]

\* the list 'padded': the first min(len(rings), total) rings, each filled
\* with (0, 0, 0) up to 'points' slots, then all-zero rings up to 'total'
PaddedRings(rings, total, points) ==
    LET n_real == Max2(0, Min2(Len(rings), total))
    IN  [n \in 1..Max2(n_real, total) |->
            IF n <= n_real
            THEN LET ring == rings[n]
                 IN  IF Len(ring) < points
                     THEN ring \o [m \in 1..(points - Len(ring)) |-> ZeroPoint]
                     ELSE ring
            ELSE [m \in 1..Max2(0, points) |-> ZeroPoint]]

\* mutant: only the x extent is measured
compute_part_rad_from_rings_XOnly(rings, buffer_ft) ==
    LET mags == UNION {{[rings[i][j][1] EXCEPT !.neg = FALSE] :
                           j \in 1..Len(rings[i])} : i \in 1..Len(rings)}
                    \cup {ZeroVal}
        base_rad == CHOOSE m \in mags : \A o \in mags : MagLeq(o, m)
    IN  VAddFeet(base_rad, buffer_ft)

\* max(|x|, |y|) over every ring point, plus buffer_ft whole feet
compute_part_rad_from_rings(rings, buffer_ft) ==
    LET mags == UNION {{[rings[i][j][a] EXCEPT !.neg = FALSE] :
                           j \in 1..Len(rings[i]), a \in 1..2} :
                       i \in 1..Len(rings)}
                    \cup {ZeroVal}
        base_rad == CHOOSE m \in mags : \A o \in mags : MagLeq(o, m)
    IN  VAddFeet(base_rad, buffer_ft)

build_body_block_lines(bods, b, total, points) ==
    LET body == bods[b + 1]
        r_dim == 2 * body.half_n_max
        s_dim == Len(body.rings)
        padded == PaddedRings(body.rings, total, points)
        i_order == _pm_i_print_order(total)
        j_order == _pm_j_print_order(points)
        nj == Len(j_order)
    IN  << BodyLine(b, <<"_","p","a","r","t","_","x"," ">> \o Fmt9(body.part_x_ft)),
           BodyLine(b, <<"_","p","a","r","t","_","y"," ","0",".","0","0","0","0","0","0","0","0","0">>),
           BodyLine(b, <<"_","p","a","r","t","_","z"," ","0",".","0","0","0","0","0","0","0","0","0">>),
           BodyLine(b, <<"_","p","a","r","t","_","r","a","d"," ">> \o Fmt9(body.part_rad_ft)),
           BodyLine(b, <<"_","r","_","d","i","m"," ">> \o Dec(r_dim)),
           BodyLine(b, <<"_","s","_","d","i","m"," ">> \o Dec(s_dim)),
           <<>> >>
        \o [n \in 1..(Len(i_order) * nj * 3) |->
               LET i == i_order[((n - 1) \div (3 * nj)) + 1]
                   j == j_order[(((n - 1) % (3 * nj)) \div 3) + 1]
                   k == (n - 1) % 3
               IN  GeoLine(b, i, j, k, padded[i + 1][j + 1][k + 1])]

----------------------------------------------------------------------------
(* Template filler of the topology pipeline:                               *)
(* build_body_block_from_template, src/files/OLD/cis_bodies2pm_working.py  *)

S_GEO_DIR == <<"/","_","g","e","o","_","x","y","z","/">>
S_BODY_B == <<"_","b","o","d","y","/","b","/">>
S_P_BODY_B == <<"P"," ","_","b","o","d","y","/","b","/">>

RECURSIVE TakeDigits(_)
\* the longest prefix of decimal digits
TakeDigits(s) ==
    IF s # <<>> /\ (\E d \in 1..10 : Digits[d] = Head(s))
    THEN <<Head(s)>> \o TakeDigits(Tail(s))
    ELSE <<>>

RECURSIVE TakeUntilSlash(_)
\* [^/]+ : the characters before the first "/"
TakeUntilSlash(s) ==
    IF s # <<>> /\ Head(s) # "/"
    THEN <<Head(s)>> \o TakeUntilSlash(Tail(s))
    ELSE <<>>

Drop(s, n) == SubSeq(s, n + 1, Len(s))

\* -?\d+\.\d+$
IsDecimalLiteral(s) ==
    LET u == IF s # <<>> /\ Head(s) = "-" THEN Tail(s) ELSE s
        ip == TakeDigits(u)
        rest == Drop(u, Len(ip))
    IN  /\ ip # <<>>
        /\ rest # <<>> /\ Head(rest) = "."
        /\ Tail(rest) # <<>>
        /\ TakeDigits(Tail(rest)) = Tail(rest)

\* GEO_RE.match(s): Some(<<i, j, k>>) of the three groups, or None
\* ^P _body/[^/]+/_geo_xyz/(\d+),(\d+),(\d+)\s+(-?\d+\.\d+)$
GeoMatch(s) ==
    LET id == TakeUntilSlash(Drop(s, Len(S_P_BODY)))
        s1 == Drop(s, Len(S_P_BODY) + Len(id))
        s2 == Drop(s1, Len(S_GEO_DIR))
        di == TakeDigits(s2)
        s3 == Drop(s2, Len(di))
        dj == TakeDigits(Drop(s3, 1))
        s4 == Drop(s3, 1 + Len(dj))
        dk == TakeDigits(Drop(s4, 1))
        s5 == Drop(s4, 1 + Len(dk))
    IN  IF /\ startswith(s, S_P_BODY)
           /\ id # <<>>
           /\ startswith(s1, S_GEO_DIR)
           /\ di # <<>> /\ s3 # <<>> /\ Head(s3) = ","
           /\ dj # <<>> /\ s4 # <<>> /\ Head(s4) = ","
           /\ dk # <<>>
           /\ s5 # <<>> /\ Head(s5) \in Whitespace
           /\ IsDecimalLiteral(lstrip(s5))
        THEN Some(<<NatValue(di), NatValue(dj), NatValue(dk)>>)
        ELSE None

\* max_i and max_j: the largest indices among the lines that match, 0 at
\* least; the first loop matches the lines as they are read
TemplateMax(template_lines, axis) ==
    MaxOf([n \in 1..Len(template_lines) |->
              IF GeoMatch(template_lines[n]) = None THEN 0
              ELSE Get(GeoMatch(template_lines[n]))[axis]], 0)

RECURSIVE Replace(_, _, _)
\* s.replace(old, new)
Replace(s, old, new) ==
    IF Len(s) < Len(old) THEN s
    ELSE IF startswith(s, old)
         THEN new \o Replace(Drop(s, Len(old)), old, new)
         ELSE <<Head(s)>> \o Replace(Tail(s), old, new)

\* old in s
Contains(s, old) ==
    \E n \in 0..(Len(s) - Len(old)) : startswith(Drop(s, n), old)

\* body.get("pm_name", body.get("group_name", f"Body {body_index}"))
PmName(body, b) ==
    IF "pm_name" \in DOMAIN body THEN body.pm_name
    ELSE IF "group_name" \in DOMAIN body THEN body.group_name
    ELSE <<"B","o","d","y"," ">> \o Dec(b)

\* padded[i][j] raises IndexError
NoSlot(padded, ijk) ==
    \/ ijk[1] >= Len(padded)
    \/ ijk[2] >= Len(padded[ijk[1] + 1])

\* the line the second loop appends for one template line; the second
\* loop matches the stripped line
TemplateLine(line, body, b, padded) ==
    LET stripped == strip(line)
        m == GeoMatch(stripped)
        Is(param) == startswith(stripped, S_P_BODY_B \o param)
    IN  IF m # None
        THEN GeoLine(b, Get(m)[1], Get(m)[2], Get(m)[3],
                     padded[Get(m)[1] + 1][Get(m)[2] + 1]
                           [IF Get(m)[3] > 1 THEN 3 ELSE Get(m)[3] + 1])
        ELSE IF Is(<<"_","p","a","r","t","_","x">>) THEN
            BodyLine(b, <<"_","p","a","r","t","_","x"," ">> \o Fmt9(body.part_x_ft))
        ELSE IF Is(<<"_","p","a","r","t","_","y">>) THEN BodyLine(b, <<"_","p","a","r","t","_","y"," ","0",".","0","0","0","0","0","0","0","0","0">>)
        ELSE IF Is(<<"_","p","a","r","t","_","z">>) THEN BodyLine(b, <<"_","p","a","r","t","_","z"," ","0",".","0","0","0","0","0","0","0","0","0">>)
        ELSE IF Is(<<"_","p","a","r","t","_","r","a","d">>) THEN
            BodyLine(b, <<"_","p","a","r","t","_","r","a","d"," ">> \o Fmt9(body.part_rad_ft))
        ELSE IF Is(<<"_","r","_","d","i","m">>) THEN
            BodyLine(b, <<"_","r","_","d","i","m"," ">> \o Dec(2 * body.half_n_max))
        ELSE IF Is(<<"_","s","_","d","i","m">>) THEN
            BodyLine(b, <<"_","s","_","d","i","m"," ">> \o Dec(Len(body.rings)))
        ELSE IF Is(<<"_","d","e","s","c","r","i","p">>) THEN
            BodyLine(b, <<"_","d","e","s","c","r","i","p"," ">> \o PmName(body, b))
        ELSE IF Contains(stripped, S_BODY_B)
        THEN Replace(stripped, S_BODY_B, <<"_","b","o","d","y","/">> \o Dec(b) \o S_SLASH)
        ELSE line

\* the result: the error raised, or the block returned
build_body_block_from_template(bods, b, template_lines) ==
    LET body == bods[b + 1]
        total == TemplateMax(template_lines, 1) + 1
        points == TemplateMax(template_lines, 2) + 1
        padded == PaddedRings(body.rings, total, points)
        Raises(line) == /\ GeoMatch(strip(line)) # None
                        /\ NoSlot(padded, Get(GeoMatch(strip(line))))
    IN  IF \E n \in 1..Len(template_lines) : Raises(template_lines[n])
        THEN [error |-> "IndexError", out_lines |-> <<>>]
        ELSE [error |-> "",
              out_lines |-> [n \in 1..Len(template_lines) |->
                                TemplateLine(template_lines[n], body, b,
                                             padded)]]

----------------------------------------------------------------------------
(* Topology stationing: src/files/OLD/cis_bodies2pm_working.py             *)
(* Vertices are numbered from 0 as in the code; a list indexed by vertex   *)
(* holds the entry of vertex v at position v + 1.                          *)

RECURSIVE ListOfSet(_, _)
\* list(nb) of a set of vertex numbers: Python fixes no order for it, the
\* model takes it ascending or descending
ListOfSet(S, set_order) ==
    IF S = {} THEN <<>>
    ELSE LET m == IF set_order = "ascending"
                  THEN CHOOSE x \in S : \A y \in S : x <= y
                  ELSE CHOOSE x \in S : \A y \in S : y <= x
         IN  <<m>> \o ListOfSet(S \ {m}, set_order)

\* mutant: the pair from the last vertex back to the first is left out
FaceEdges_NoWrap(face) ==
    IF Len(face) < 2 THEN {}
    ELSE {<<face[i], face[i + 1]>> : i \in 1..(Len(face) - 1)}

\* the pairs (v0, v1) of one face: face[i] and face[(i + 1) % n]
FaceEdges(face) ==
    IF Len(face) < 2 THEN {}
    ELSE {<<face[i], face[(i % Len(face)) + 1]>> : i \in 1..Len(face)}

\* the pairs (v0, v1) of all faces
MeshEdges(faces) == UNION {FaceEdges(faces[f]) : f \in 1..Len(faces)}

\* neighbors[v] as a set: if v0 == v1: continue; neighbors[v0].add(v1);
\* neighbors[v1].add(v0)
NeighborSet(v, edges) ==
    ({e[2] : e \in {d \in edges : d[1] = v}}
        \cup {e[1] : e \in {d \in edges : d[2] = v}}) \ {v}

build_vertex_adjacency(num_verts, faces, set_order) ==
    LET edges == MeshEdges(faces)
    IN  [n \in 1..num_verts |-> ListOfSet(NeighborSet(n - 1, edges), set_order)]

\* min(range(len(verts_m)), key=lambda i: z_values[i]): the first vertex of
\* the least z
NoseOf(verts_m) ==
    CHOOSE n \in 0..(Len(verts_m) - 1) :
        /\ \A m \in 0..(Len(verts_m) - 1) : verts_m[n + 1][3] <= verts_m[m + 1][3]
        /\ \A m \in 0..(n - 1) : verts_m[m + 1][3] > verts_m[n + 1][3]

\* max(range(len(verts_m)), key=lambda i: z_values[i]): the first vertex of
\* the greatest z
TailOf(verts_m) ==
    CHOOSE n \in 0..(Len(verts_m) - 1) :
        /\ \A m \in 0..(Len(verts_m) - 1) : verts_m[m + 1][3] <= verts_m[n + 1][3]
        /\ \A m \in 0..(n - 1) : verts_m[m + 1][3] < verts_m[n + 1][3]

\* dist is held as the list of its items <<vertex, distance>> in the order
\* they were inserted
InDist(dist, v) == \E n \in 1..Len(dist) : dist[n][1] = v

DistOf(dist, v) == dist[CHOOSE n \in 1..Len(dist) : dist[n][1] = v][2]

RECURSIVE VisitNeighbors(_, _, _, _)
\* for nb in neighbors[v]: if nb not in dist: dist[nb] = dist[v] + 1;
\* q.append(nb) -- returns <<dist, q>>
VisitNeighbors(nbs, d, dist, q) ==
    IF nbs = <<>> THEN <<dist, q>>
    ELSE IF InDist(dist, Head(nbs))
         THEN VisitNeighbors(Tail(nbs), d, dist, q)
         ELSE VisitNeighbors(Tail(nbs), d,
                             Append(dist, <<Head(nbs), d>>),
                             Append(q, Head(nbs)))

RECURSIVE BreadthFirst_DepthFirst(_, _, _)
\* mutant: v = q.pop(), the vertex queued last is visited first
BreadthFirst_DepthFirst(neighbors, dist, q) ==
    IF q = <<>> THEN dist
    ELSE LET v == q[Len(q)]
             step == VisitNeighbors(neighbors[v + 1], DistOf(dist, v) + 1,
                                    dist, SubSeq(q, 1, Len(q) - 1))
         IN  BreadthFirst_DepthFirst(neighbors, step[1], step[2])

RECURSIVE BreadthFirst(_, _, _)
\* while q: v = q.popleft(); ...
BreadthFirst(neighbors, dist, q) ==
    IF q = <<>> THEN dist
    ELSE LET step == VisitNeighbors(neighbors[Head(q) + 1],
                                    DistOf(dist, Head(q)) + 1, dist, Tail(q))
         IN  BreadthFirst(neighbors, step[1], step[2])

\* the value returned: dist, nose, tail
compute_topological_layers(verts_m, neighbors) ==
    [ dist |-> BreadthFirst(neighbors, <<<<NoseOf(verts_m), 0>>>>,
                            <<NoseOf(verts_m)>>),
      nose |-> NoseOf(verts_m),
      tail |-> TailOf(verts_m) ]

\* buckets[d]: the vertices at distance d, in the order of dist
Bucket(dist, d) ==
    LET At(item) == item[2] = d
        items == SelectSeq(dist, At)
    IN  [n \in 1..Len(items) |-> items[n][1]]

MinRing == 8
MaxRing == 16
MaxStationCount == 20

\* mutant: rings of more than 16 vertices pass
RingRejected_NoUpper(n_ring) == ~(MinRing <= n_ring)

\* not (8 <= n_ring <= 16)
RingRejected(n_ring) == ~(MinRing <= n_ring /\ n_ring <= MaxRing)


\* the outcome: the error raised, or the stations returned
build_station_vertex_groups(verts_m, neighbors) ==
    IF verts_m = <<>> THEN [error |-> "ValueError", stations |-> <<>>]
    ELSE
    LET layers == compute_topological_layers(verts_m, neighbors)
        dist == layers.dist
        d_values == SortedSet({dist[n][2] : n \in 1..Len(dist)})
        tail_candidate == TailOf(verts_m)
        tail_d == DistOf(dist, tail_candidate)
        Mid(d) == d # 0 /\ d # tail_d
        mids == SelectSeq(d_values, Mid)
        BadRing(d) == RingRejected(Len(Bucket(dist, d)))
        stations == <<<<layers.nose>>>>
                        \o [n \in 1..Len(mids) |-> Bucket(dist, mids[n])]
                        \o <<Bucket(dist, tail_d)>>
    IN  IF ~InDist(dist, tail_candidate)
        THEN [error |-> "KeyError", stations |-> <<>>]
        ELSE IF \E n \in 1..Len(mids) : BadRing(mids[n])
        THEN [error |-> "ValueError", stations |-> <<>>]
        ELSE IF Len(Bucket(dist, tail_d)) # 1
        THEN [error |-> "ValueError", stations |-> <<>>]
        ELSE IF Len(stations) > MaxStationCount
        THEN [error |-> "ValueError", stations |-> <<>>]
        ELSE [error |-> "", stations |-> stations]

----------------------------------------------------------------------------
(* Ring canonicalizer: build_pm_rings_for_mesh                             *)

\* where atan2(y, x) lies: below 0, at 0, between 0 and pi, at pi
AngleRank(p) ==
    IF p[2] < 0 THEN 0
    ELSE IF p[2] > 0 THEN 2
    ELSE IF p[1] >= 0 THEN 1 ELSE 3

\* mutant: the comparison reversed, the sort ascends
AngleAbove_Reversed(p, q) ==
    \/ AngleRank(p) < AngleRank(q)
    \/ /\ AngleRank(p) = AngleRank(q)
       /\ AngleRank(p) \in {0, 2}
       /\ q[1] * p[2] - q[2] * p[1] < 0

\* atan2(p.y, p.x) > atan2(q.y, q.x)
AngleAbove(p, q) ==
    \/ AngleRank(p) > AngleRank(q)
    \/ /\ AngleRank(p) = AngleRank(q)
       /\ AngleRank(p) \in {0, 2}
       /\ q[1] * p[2] - q[2] * p[1] > 0

RECURSIVE SortByAngleDesc(_)
\* side_with_angle.sort(key=lambda t: t[3], reverse=True), stable
SortByAngleDesc(vs) ==
    IF vs = <<>> THEN <<>>
    ELSE LET init == SortByAngleDesc(SubSeq(vs, 1, Len(vs) - 1))
             v == vs[Len(vs)]
             Before(u) == ~AngleAbove(v, u)
             After(u) == AngleAbove(v, u)
         IN  SelectSeq(init, Before) \o <<v>> \o SelectSeq(init, After)

\* if abs(v) < eps: v = 0.0, eps = 1e-5 ft
SnapEps == 10000

Snap(v) == IF v.ip = 0 /\ v.fp < SnapEps THEN ZeroVal ELSE v

\* half_raw: the vertices with x >= -eps_split (1e-5 m, a tenth of the
\* unit of the model's coordinates)
HalfRaw(station_verts_m) ==
    LET Passes(v) == v[1] >= 0
    IN  SelectSeq(station_verts_m, Passes)

\* center_indices: abs(x_ft) < eps_center (1e-4 ft, a third of the unit)
CenterIndices(half) == {n \in 1..Len(half) : half[n][1] = 0}

\* ordered: [top] + sides by descending angle + [bottom] when two
\* centerline vertices exist, else the half by descending angle
CanonicalHalf(half) ==
    LET cl == CenterIndices(half)
        top_i == CHOOSE n \in cl :
                     /\ \A m \in cl : half[m][2] <= half[n][2]
                     /\ \A m \in cl : m < n => half[m][2] < half[n][2]
        bot_i == CHOOSE n \in cl :
                     /\ \A m \in cl : half[n][2] <= half[m][2]
                     /\ \A m \in cl : m < n => half[m][2] > half[n][2]
        side_idx == SortedSet((1..Len(half)) \ {top_i, bot_i})
        side == [n \in 1..Len(side_idx) |-> half[side_idx[n]]]
    IN  IF Cardinality(cl) >= 2
        THEN <<half[top_i]>> \o SortByAngleDesc(side) \o <<half[bot_i]>>
        ELSE SortByAngleDesc(half)

HalfSlots == 9

\* left_ring: the first 9 of ordered, the last one repeated, in feet
LeftRing(ordered) ==
    [j \in 1..HalfSlots |->
        LET v == IF j <= Len(ordered) THEN ordered[j] ELSE ordered[Len(ordered)]
        IN  <<Snap(Ft(v[1])), Snap(Ft(v[2])), Snap(Ft(v[3]))>>]

\* mutant: ring[9 + j_left] = ring[j_left], x is not negated
MirroredRing_Copy(left_ring) ==
    [j \in 1..(2 * HalfSlots) |->
        IF j <= HalfSlots THEN left_ring[j] ELSE left_ring[j - HalfSlots]]

\* ring: slots 0..8 the left ring, slots 9..17 its mirror image
MirroredRing(left_ring) ==
    [j \in 1..(2 * HalfSlots) |->
        IF j <= HalfSlots THEN left_ring[j]
        ELSE <<Snap(VNeg(left_ring[j - HalfSlots][1])),
               left_ring[j - HalfSlots][2], left_ring[j - HalfSlots][3]>>]

\* the ring of a station of one vertex
TipRing(v) ==
    [j \in 1..(2 * HalfSlots) |-> <<ZeroVal, Snap(Ft(v[2])), Snap(Ft(v[3]))>>]

MinHalf == 5
MaxHalf == 9

\* the outcome: the error raised, or part_x_ft, rings, half_n_max
build_pm_rings_for_mesh(verts_m, faces, set_order) ==
    IF verts_m = <<>>
    THEN [error |-> "", part_x_ft |-> ZeroVal, rings |-> <<>>, half_n_max |-> 0]
    ELSE
    LET center_x_m == compute_center_x(verts_m)
        verts_local == [n \in 1..Len(verts_m) |->
                           <<verts_m[n][1] - center_x_m, verts_m[n][2],
                             verts_m[n][3]>>]
        neighbors == build_vertex_adjacency(Len(verts_m), faces, set_order)
        groups == build_station_vertex_groups(verts_local, neighbors)
        StationVerts(n) == [m \in 1..Len(groups.stations[n]) |->
                               verts_local[groups.stations[n][m] + 1]]
        n_half(n) == Len(HalfRaw(StationVerts(n)))
        mid == {n \in 1..Len(groups.stations) : Len(groups.stations[n]) # 1}
    IN  IF groups.error # ""
        THEN [error |-> groups.error, part_x_ft |-> ZeroVal, rings |-> <<>>,
              half_n_max |-> 0]
        ELSE IF \E n \in mid : ~(MinHalf <= n_half(n) /\ n_half(n) <= MaxHalf)
        THEN [error |-> "ValueError", part_x_ft |-> ZeroVal, rings |-> <<>>,
              half_n_max |-> 0]
        ELSE [error |-> "",
              part_x_ft |-> Ft(center_x_m),
              rings |-> [n \in 1..Len(groups.stations) |->
                            IF n \in mid
                            THEN MirroredRing(LeftRing(CanonicalHalf(
                                     HalfRaw(StationVerts(n)))))
                            ELSE TipRing(StationVerts(n)[1])],
              half_n_max |-> MaxOf(
                  [n \in 1..Len(groups.stations) |->
                      IF n \in mid THEN n_half(n) ELSE 0], 0)]

----------------------------------------------------------------------------
(* Files.  A text file holds the characters of its lines with the newline  *)
(* characters between them, an OBJ file its statements; a path with no     *)
(* file is Absent, a file that exists and cannot be opened (permissions)   *)
(* is Locked.                                                              *)

Absent == [absent |-> TRUE]
Locked == [locked |-> TRUE]
TextFile(text) == [text |-> text]
ObjFile(statements) == [statements |-> statements]

NL == "\n"

\* os.path.isfile(path)
IsFile(files, path) == files[path] # Absent

\* open(path) succeeds, for reading or for writing
CanOpen(files, path) == files[path] # Locked

RECURSIVE ReadLines(_)
\* [ln.rstrip("\n") for ln in f]: the text cut after each newline
ReadLines(text) ==
    IF text = <<>> THEN <<>>
    ELSE IF \E n \in 1..Len(text) : text[n] = NL
         THEN LET n == CHOOSE m \in 1..Len(text) :
                          /\ text[m] = NL
                          /\ \A q \in 1..(m - 1) : text[q] # NL
              IN  <<SubSeq(text, 1, n - 1)>>
                      \o ReadLines(SubSeq(text, n + 1, Len(text)))
         ELSE <<text>>

RECURSIVE JoinLines(_)
\* "\n".join(lines)
JoinLines(lines) ==
    IF lines = <<>> THEN <<>>
    ELSE IF Len(lines) = 1 THEN lines[1]
    ELSE LET half == Len(lines) \div 2
         IN  JoinLines(SubSeq(lines, 1, half)) \o <<NL>>
                 \o JoinLines(SubSeq(lines, half + 1, Len(lines)))

RECURSIVE TerminatedLines(_)
\* for ln in lines: f.write(ln + "\n")
TerminatedLines(lines) ==
    IF lines = <<>> THEN <<>>
    ELSE IF Len(lines) = 1 THEN lines[1] \o <<NL>>
    ELSE LET half == Len(lines) \div 2
         IN  TerminatedLines(SubSeq(lines, 1, half))
                 \o TerminatedLines(SubSeq(lines, half + 1, Len(lines)))

----------------------------------------------------------------------------
(* Config patcher of the topology pipeline: rewrite_acf_bodies,            *)
(* src/files/OLD/cis_bodies2pm_working.py                                  *)

\* the loop over the lines: prop_end is the first PROPERTIES_END, where
\* the loop breaks, prop_begin the last PROPERTIES_BEGIN seen until then
\* (0-based indices)
PropEnd(lines) ==
    IF \E n \in 1..Len(lines) : strip(lines[n]) = S_PROPERTIES_END
    THEN Some((CHOOSE n \in 1..Len(lines) :
                  /\ strip(lines[n]) = S_PROPERTIES_END
                  /\ \A m \in 1..(n - 1) :
                         strip(lines[m]) # S_PROPERTIES_END) - 1)
    ELSE None

\* mutant: the loop does not stop at the first PROPERTIES_END
PropBegin_NoBreak(lines) ==
    LET seen == {n \in 1..Len(lines) : strip(lines[n]) = S_PROPERTIES_BEGIN}
    IN  IF seen = {} THEN None
        ELSE Some((CHOOSE n \in seen : \A m \in seen : m <= n) - 1)

PropBegin(lines) ==
    LET last == IF PropEnd(lines) = None THEN Len(lines)
                ELSE Get(PropEnd(lines))
        seen == {n \in 1..last : strip(lines[n]) = S_PROPERTIES_BEGIN}
    IN  IF seen = {} THEN None
        ELSE Some((CHOOSE n \in seen : \A m \in seen : m <= n) - 1)

\* if prop_begin is None or prop_end is None or prop_end <= prop_begin: raise
NoPropertiesBlock(lines) ==
    \/ PropBegin(lines) = None
    \/ PropEnd(lines) = None
    \/ Get(PropEnd(lines)) <= Get(PropBegin(lines))

\* lines[idx].lstrip().startswith("P _body/")
IsAnyBodyLine(l) == startswith(lstrip(l), S_P_BODY)

\* the P _body lines inside the properties block, 0-based
BodyLinesInside(lines) ==
    {idx \in (Get(PropBegin(lines)) + 1)..(Get(PropEnd(lines)) - 1) :
        IsAnyBodyLine(lines[idx + 1])}

\* body_start: the first of them, or prop_begin + 1
BodyStart(lines) ==
    LET inside == BodyLinesInside(lines)
    IN  IF inside = {} THEN Get(PropBegin(lines)) + 1
        ELSE CHOOSE n \in inside : \A m \in inside : n <= m

\* body_end: the last of them, or body_start - 1
BodyEnd(lines) ==
    LET inside == BodyLinesInside(lines)
    IN  IF inside = {} THEN BodyStart(lines) - 1
        ELSE CHOOSE n \in inside : \A m \in inside : m <= n

\* new_lines = lines[:body_start] + new_body_lines + lines[body_end + 1:]
RewrittenLines(lines, block) ==
    Slice(lines, 0, BodyStart(lines)) \o block
        \o Slice(lines, BodyEnd(lines) + 1, Len(lines))

----------------------------------------------------------------------------
(* Inputs of the patcher *)

\* lines an ACF document is drawn from
L_BEGIN == S_PROPERTIES_BEGIN
L_END == S_PROPERTIES_END
L_OTHER == <<"P"," ","a","c","f","/","_","n","a","m","e"," ","x">>
L_BODY1_A == <<"P"," ","_","b","o","d","y","/","1","/","_","r","_","d","i","m"," ","2">>
L_BODY1_B == <<" "," ","P"," ","_","b","o","d","y","/","1","/","_","s","_","d","i","m"," ","3">>
L_BODY10 == <<"P"," ","_","b","o","d","y","/","1","0","/","_","r","_","d","i","m"," ","2">>

DocLines == {L_BEGIN, L_END, L_OTHER, L_BODY1_A, L_BODY1_B, L_BODY10}

SeqsUpTo(S, n) == UNION {[1..k -> S] : k \in 0..n}

Docs == SeqsUpTo(DocLines, MaxDocLen)

\* body 1 has lines in the documents, body 7 has none
BodyIndices == {1, 7}

\* the lines of a document that body b owns, in document order
OwnedLines(lines, b) ==
    LET Own(l) == IsBodyLine(l, b) IN SelectSeq(lines, Own)

Reverse(s) == [i \in 1..Len(s) |-> s[Len(s) + 1 - i]]

\* hand-written blocks for body b; the last one holds a line b does not own
FreeBlocks(b) ==
    { <<>>,
      <<BodyPrefix(b) \o <<"_","p","a","r","t","_","x"," ","0">>>>,
      <<BodyPrefix(b) \o <<"_","r","_","d","i","m"," ","4">>, BodyPrefix(b) \o <<"_","s","_","d","i","m"," ","5">>>>,
      <<L_OTHER, BodyPrefix(b) \o <<"_","r","_","d","i","m"," ","4">>>> }

\* blocks for body b as build_body_block returns them, in the order built
\* and in the opposite order
BuilderBlocks(b) ==
    LET tip == <<0, 1, 0>>
        mid == <<2, 3, 5>>
        blk == build_body_block(b, <<<<tip>>, <<mid>>>>, <<tip, mid>>, 1, 2,
                                Ft(1))
    IN  {blk, Reverse(blk)}

----------------------------------------------------------------------------
(* Specification of the patcher: replace_body_block applied to a document, *)
(* and applied again to the document it returned                           *)

InitPatch ==
    /\ pc = "start"
    /\ acf_lines \in Docs
    /\ body_index \in BodyIndices
    /\ \E k \in {"free", "builder", "current"} :
          /\ block_kind = k
          /\ new_block \in
                CASE k = "free" -> FreeBlocks(body_index)
                  [] k = "builder" -> BuilderBlocks(body_index)
                  [] k = "current" -> {OwnedLines(acf_lines, body_index)}
    /\ new_acf = <<>>
    /\ runs = 0
    /\ GridIdle
    /\ LinesIdle
    /\ TemplateIdle
    /\ FilesIdle
    /\ EntryIdle
    /\ TopoIdle
    /\ GenIdle

\* new_acf = replace_body_block(acf_lines, body_index=bidx, new_block=body_block)
ReplaceBodyBlock ==
    /\ pc = "start"
    /\ new_acf' = replace_body_block(acf_lines, body_index, new_block)
    /\ pc' = "patched"
    /\ runs' = runs + 1
    /\ UNCHANGED <<acf_lines, body_index, new_block, block_kind>>
    /\ UNCHANGED <<gridVars, linesVars, templateVars, fileVars, entryVars, topoVars,
                genVars>>

\* the written file is the next run's input, patched with the block it holds
Reload ==
    /\ pc = "patched"
    /\ runs < MaxRuns
    /\ acf_lines' = new_acf
    /\ block_kind' = "current"
    /\ new_block' = OwnedLines(new_acf, body_index)
    /\ pc' = "start"
    /\ UNCHANGED <<body_index, new_acf, runs>>
    /\ UNCHANGED <<gridVars, linesVars, templateVars, fileVars, entryVars, topoVars,
                genVars>>

NextPatch == ReplaceBodyBlock \/ Reload

SpecPatch == InitPatch /\ [][NextPatch]_vars

----------------------------------------------------------------------------
(* Inputs of the grid mappers *)

\* vertices (x, y, z) in 10^-4 m; no two stations below share a vertex
V_A == <<0, 1, 0>>
V_B == <<-2, -1, 5>>
V_C == <<-1, 3, 5>>
V_D == <<1, -2, 6>>
V_E == <<0, 4, 6>>
V_F == <<-3, 2, 6>>

\* stations: empty, a single point, a ring with no vertex at x >= 0, a ring
\* with two vertices at x >= 0 and one at x < 0
StationPool ==
    { <<>>, <<V_A>>, <<V_B, V_C>>, <<V_D, V_E, V_F>> }

StationLists == SeqsUpTo(StationPool, MaxStations)

\* ring points (x_ft, y_ft, z_ft) of the topology pipeline
P_1 == <<Ft(1), Ft(2), Ft(3)>>
P_2 == <<Ft(-1), Ft(2), Ft(3)>>
P_3 == <<Ft(4), Ft(-5), Ft(6)>>
P_4 == <<ZeroVal, Ft(7), Ft(8)>>
P_5 == <<Ft(9), Ft(1), Ft(2)>>
P_6 == <<Ft(-9), Ft(1), Ft(2)>>

RingPool == { <<P_4>>, <<P_1, P_2>>, <<P_3, P_5, P_6>> }

RingLists == SeqsUpTo(RingPool, MaxStations)

\* a body as build_bodies_from_obj records it
Body(rings) ==
    [ part_x_ft |-> ZeroVal,
      part_rad_ft |-> VAddFeet(Ft(9), 1),
      half_n_max |-> 2,
      rings |-> rings ]

----------------------------------------------------------------------------
(* Specification of the grid mappers: each emitter applied to its inputs *)

InitGeo ==
    /\ pc = "geo"
    /\ body_index = 12
    /\ stations_mesh \in StationLists
    /\ target_i \in 0..MaxTargetI
    /\ target_j \in 0..MaxTargetJ
    /\ geo_lines = <<>>
    /\ LinesIdle
    /\ TemplateIdle

InitLines ==
    /\ pc = "lines"
    /\ \E rings \in RingLists :
          \/ bodies = <<Body(rings)>> /\ body_index = 0
          \/ bodies = <<Body(<<>>), Body(rings)>> /\ body_index = 1
    /\ total_stations \in 0..MaxTargetI
    /\ points_per_ring \in 0..MaxTargetJ
    /\ body_lines = <<>>
    /\ GridIdle
    /\ TemplateIdle

\* template lines: parameters, geometry lines (one indented, one that the
\* pattern rejects), a line of another section, a blank line
T_PART_X == <<"P"," ","_","b","o","d","y","/","b","/","_","p","a","r","t","_","x"," ","0",".","0","0","0","0","0","0","0","0","0">>
T_GEO_000 == <<"P"," ","_","b","o","d","y","/","b","/","_","g","e","o","_","x","y","z","/","0",",","0",",","0"," ","0",".","0","0","0","0","0","0","0","0","0">>
T_GEO_112 == <<"P"," ","_","b","o","d","y","/","b","/","_","g","e","o","_","x","y","z","/","1",",","1",",","2"," ","0",".","0","0","0","0","0","0","0","0","0">>
T_GEO_INDENTED == <<" "," ","P"," ","_","b","o","d","y","/","b","/","_","g","e","o","_","x","y","z","/","1",",","0",",","1"," ","0",".","0","0","0","0","0","0","0","0","0">>
T_GEO_NO_K == <<"P"," ","_","b","o","d","y","/","b","/","_","g","e","o","_","x","y","z","/","0",",","0"," ","0",".","0","0","0","0","0","0","0","0","0">>
T_ENGN == <<" ","P"," ","_","b","o","d","y","/","b","/","_","e","n","g","n","_","b"," ","_","b","o","d","y","/","b","/">>
T_OTHER == <<"P"," ","a","c","f","/","_","n","a","m","e"," ","x">>

TemplateLines ==
    { T_PART_X, T_GEO_000, T_GEO_112, T_GEO_INDENTED, T_GEO_NO_K, T_ENGN,
      T_OTHER, <<>> }

Templates == SeqsUpTo(TemplateLines, MaxTemplateLen)

InitTemplate ==
    /\ pc = "template"
    /\ \E rings \in {<<>>, <<<<P_4>>>>, <<<<P_4>>, <<P_3, P_5, P_6>>>>} :
          \/ bodies = <<Body(rings)>> /\ body_index = 0
          \/ bodies = <<Body(<<>>), Body(rings)>> /\ body_index = 1
    /\ \E t \in Templates : template_file = TerminatedLines(t)
    /\ built = <<>>
    /\ total_stations = 0
    /\ points_per_ring = 0
    /\ body_lines = <<>>
    /\ GridIdle

InitGrid ==
    /\ InitGeo \/ InitLines \/ InitTemplate
    /\ PatchIdle
    /\ FilesIdle
    /\ EntryIdle
    /\ TopoIdle
    /\ GenIdle

\* generate_geo_xyz_literal_from_stations(stations_mesh, body_index=...,
\*     target_i=..., target_j=..., with_tip_tail=True)
GenerateGeo ==
    /\ pc = "geo"
    /\ geo_lines' = generate_geo_xyz_literal_from_stations(
                        stations_mesh, body_index, target_i, target_j, TRUE)
    /\ pc' = "geo_done"
    /\ UNCHANGED <<stations_mesh, target_i, target_j>>
    /\ UNCHANGED <<patchVars, linesVars, templateVars, fileVars, entryVars, topoVars,
                genVars>>

\* build_body_block_lines(bodies, body_index, total_stations, points_per_ring)
BuildBodyBlockLines ==
    /\ pc = "lines"
    /\ body_lines' = build_body_block_lines(bodies, body_index,
                                            total_stations, points_per_ring)
    /\ pc' = "lines_done"
    /\ UNCHANGED <<bodies, total_stations, points_per_ring>>
    /\ UNCHANGED <<patchVars, gridVars, templateVars, fileVars, entryVars, topoVars,
                genVars>>

\* build_body_block_from_template(bodies, body_index, template_path)
BuildBodyBlockFromTemplate ==
    /\ pc = "template"
    /\ built' = build_body_block_from_template(bodies, body_index,
                                               ReadLines(template_file))
    /\ pc' = "template_done"
    /\ UNCHANGED template_file
    /\ UNCHANGED <<patchVars, gridVars, linesVars, fileVars, entryVars, topoVars,
                genVars>>

NextGrid == GenerateGeo \/ BuildBodyBlockLines \/ BuildBodyBlockFromTemplate

SpecGrid == InitGrid /\ [][NextGrid]_vars

----------------------------------------------------------------------------
(* Inputs of the conversion runs *)

\* os.path.splitext(path): the extension starts at the last dot of the last
\* component, unless only dots precede it there
SplitExt(path) ==
    LET At(c) == {n \in 1..Len(path) : path[n] = c}
        Last(S) == IF S = {} THEN 0 ELSE CHOOSE n \in S : \A m \in S : m <= n
        sep == Last(At("/"))
        dot == Last(At("."))
    IN  IF dot > sep /\ (\E n \in (sep + 1)..(dot - 1) : path[n] # ".")
        THEN <<SubSeq(path, 1, dot - 1), SubSeq(path, dot, Len(path))>>
        ELSE <<path, <<>>>>

\* f"{base}_mobject_centered_body{bidx}{ext}"
DerivedPath(path, bidx) ==
    SplitExt(path)[1] \o <<"_","m","o","b","j","e","c","t","_","c","e","n","t","e","r","e","d","_","b","o","d","y">> \o Dec(bidx)
        \o SplitExt(path)[2]

PATH_ACF == <<"a",".","a","c","f">>
PATH_ACF_NO_EXT == <<"d",".","v","/","b">>
PATH_OBJ == <<"m",".","o","b","j">>
PATH_BODIES == <<"a","_","b","o","d","i","e","s",".","a","c","f">>

L_I_COUNT_0 == <<"P"," ","_","b","o","d","y","/","0","/","_","l","o","c","k","e","d","/","i","_","c","o","u","n","t"," ","2">>
L_J_COUNT_0 == <<"P"," ","_","b","o","d","y","/","0","/","_","l","o","c","k","e","d","/","j","_","c","o","u","n","t"," ","3">>
L_I_COUNT_1 == <<"P"," ","_","b","o","d","y","/","1","/","_","l","o","c","k","e","d","/","i","_","c","o","u","n","t"," ","3">>
L_J_COUNT_1 == <<" "," ","P"," ","_","b","o","d","y","/","1","/","_","l","o","c","k","e","d","/","j","_","c","o","u","n","t"," ","1">>
L_PART_X_0 == <<"P"," ","_","b","o","d","y","/","0","/","_","p","a","r","t","_","x"," ","1",".","0","0","0","0","0","0","0","0","0">>

\* the ACF documents of run_once: both bodies dimensioned, body 0 with a
\* block to replace; no body dimensioned at all but body 0's station count
RunDocs ==
    { <<L_BEGIN, L_I_COUNT_0, L_PART_X_0, L_J_COUNT_0, L_OTHER,
        L_J_COUNT_1, L_I_COUNT_1, L_END>>,
      <<L_I_COUNT_0, L_OTHER>> }

\* OBJ vertices (x, y, z) in 10^-4 m, x even
W_1 == <<2, 1, 0>>
W_2 == <<6, -1, 4>>
W_3 == <<-2, 3, 4>>
W_4 == <<4, 2, 7>>
W_5 == <<0, 5, 9>>

ObjVertex(xyz) == [k |-> "v", xyz |-> xyz]
ObjGroup(name) == [k |-> "g", name |-> name]
ObjFace(idx) == [k |-> "f", idx |-> idx]

\* a fuselage and a longer wing; no face at all; two groups and faces that
\* name vertices the file does not hold
ObjFiles ==
    { << ObjVertex(W_1), ObjVertex(W_2), ObjVertex(W_3), ObjVertex(W_4),
         ObjVertex(W_5), ObjGroup("wing"), ObjFace(<<1, 4, 5>>),
         ObjGroup(S_FUSELAGE), ObjFace(<<4, 2, 1>>), ObjFace(<<3, 2, 4>>) >>,
      << ObjVertex(W_1), ObjGroup("wing") >>,
      << ObjFace(<<1>>), ObjVertex(W_3), ObjVertex(W_1), ObjGroup("a"),
         ObjFace(<<0, 2, 9>>), ObjGroup("b"), ObjVertex(W_5),
         ObjFace(<<1, 3, 2>>), ObjGroup("c"), ObjFace(<<3, 1>>) >> }

BodyIndexEntries == { <<"0">>, <<" ","1">>, <<"x">> }
VertsPerLoopEntries == { <<"1">>, <<"2">>, <<"0">> }

OldOutput == <<"o","l","d">>

\* the paths a run can name
FsPaths ==
    {PATH_ACF, PATH_ACF_NO_EXT, PATH_OBJ, PATH_BODIES}
        \cup {DerivedPath(p, b) : p \in {PATH_ACF, PATH_ACF_NO_EXT},
                                  b \in {0, 1}}

\* the ACF documents of rewrite_acf_bodies: the lines drawn, with the
\* markers and body lines indented or not
Indented(doc) == [n \in 1..Len(doc) |-> <<" ", "\t">> \o doc[n] \o <<" ">>]

RewriteDocs ==
    LET docs == SeqsUpTo({L_BEGIN, L_END, L_OTHER, L_BODY1_A}, MaxAcfLen)
    IN  docs \cup {Indented(d) : d \in docs}

\* the block handed to rewrite_acf_bodies: a block of the builder
RewriteBlock == build_body_block_lines(<<Body(<<<<P_4>>>>)>>, 0, 1, 1)

----------------------------------------------------------------------------
(* Specification of the conversion runs: ImporterGUI.run_once and          *)
(* rewrite_acf_bodies, each cut at its file operations                     *)

FileStates(texts) == {Absent, Locked} \cup texts

InitRunOnce ==
    /\ pc = "run_once"
    /\ acf_path \in {PATH_ACF, PATH_ACF_NO_EXT}
    /\ obj_path = PATH_OBJ
    /\ entry_body_index \in BodyIndexEntries
    /\ entry_verts_per_loop \in VertsPerLoopEntries
    /\ \E acf \in FileStates({TextFile(TerminatedLines(d)) : d \in RunDocs}),
          obj \in FileStates({ObjFile(f) : f \in ObjFiles}),
          out \in FileStates({TextFile(OldOutput)}) :
          fs = [p \in FsPaths |->
                   IF p = acf_path THEN acf
                   ELSE IF p = obj_path THEN obj
                   ELSE IF p \in {DerivedPath(acf_path, b) : b \in {0, 1}}
                        THEN out
                   ELSE Absent]
    /\ body_index = 0
    /\ new_block = <<>>
    /\ out_path = <<>>

InitRewrite ==
    /\ pc = "rewrite"
    /\ acf_path = PATH_ACF
    /\ out_path \in {PATH_ACF, PATH_BODIES}
    /\ obj_path = <<>>
    /\ entry_body_index = <<>>
    /\ entry_verts_per_loop = <<>>
    /\ \E acf \in FileStates({TextFile(TerminatedLines(d)) : d \in RewriteDocs}),
          out \in FileStates({TextFile(OldOutput)}) :
          fs = [p \in FsPaths |->
                   IF p = acf_path THEN acf
                   ELSE IF p = out_path THEN out
                   ELSE Absent]
    /\ body_index = 0
    /\ new_block = RewriteBlock

InitRun ==
    /\ InitRunOnce \/ InitRewrite
    /\ fs_start = fs
    /\ error = ""
    /\ acf_lines = <<>>
    /\ block_kind = "builder"
    /\ new_acf = <<>>
    /\ runs = 0
    /\ vpl = 0
    /\ loaded_groups = <<>>
    /\ verts_centered = <<>>
    /\ GridIdle
    /\ LinesIdle
    /\ TemplateIdle
    /\ TopoIdle
    /\ GenIdle

\* what no step of a run changes
RunFrame ==
    /\ UNCHANGED <<fs_start, acf_path, obj_path, block_kind, runs>>
    /\ UNCHANGED <<entry_body_index, entry_verts_per_loop>>
    /\ UNCHANGED <<geo_lines, linesVars, templateVars, topoVars,
                genVars>>

\* run_once up to the try block: the entries are checked, a message box
\* ends the run when one is refused
CheckEntries ==
    /\ pc = "run_once"
    /\ LET bidx == ParseInt(entry_body_index)
           n == ParseInt(entry_verts_per_loop)
           ok == /\ bidx # None
                 /\ obj_path # <<>> /\ IsFile(fs, obj_path)
                 /\ acf_path # <<>> /\ IsFile(fs, acf_path)
                 /\ n # None /\ Get(n) > 0
       IN  /\ pc' = IF ok THEN "read_acf" ELSE "refused"
           /\ body_index' = IF bidx # None THEN Get(bidx) ELSE body_index
           /\ vpl' = IF ok THEN Get(n) ELSE vpl
    /\ UNCHANGED <<fs, out_path, error, acf_lines, new_block, new_acf>>
    /\ UNCHANGED <<stations_mesh, target_i, target_j>>
    /\ UNCHANGED <<loaded_groups, verts_centered>>
    /\ RunFrame

\* with open(acf) ...: acf_lines = [...]; read_target_dims_from_acf(...)
ReadAcf ==
    /\ pc = "read_acf"
    /\ IF CanOpen(fs, acf_path)
       THEN /\ acf_lines' = ReadLines(fs[acf_path].text)
            /\ target_i' = read_target_dims_from_acf(acf_lines', body_index)[1]
            /\ target_j' = read_target_dims_from_acf(acf_lines', body_index)[2]
            /\ pc' = "load_obj"
            /\ error' = error
       ELSE /\ pc' = "failed"
            /\ error' = "OSError"
            /\ UNCHANGED <<acf_lines, target_i, target_j>>
    /\ UNCHANGED <<fs, out_path, body_index, new_block, new_acf>>
    /\ UNCHANGED <<stations_mesh, vpl, loaded_groups, verts_centered>>
    /\ RunFrame

\* groups = load_obj_groups(obj); if not groups: ... return
LoadObj ==
    /\ pc = "load_obj"
    /\ IF CanOpen(fs, obj_path)
       THEN /\ loaded_groups' = load_obj_groups(fs[obj_path].statements)
            /\ pc' = IF loaded_groups' = <<>> THEN "no_groups" ELSE "build"
            /\ error' = error
       ELSE /\ pc' = "failed"
            /\ error' = "OSError"
            /\ UNCHANGED loaded_groups
    /\ UNCHANGED <<fs, out_path, body_index, acf_lines, new_block, new_acf>>
    /\ UNCHANGED <<stations_mesh, target_i, target_j, vpl, verts_centered>>
    /\ RunFrame

\* from the choice of the group to out_path: the group is recentred, cut
\* into stations, the block is built and patched into the document
BuildAndPatch ==
    /\ pc = "build"
    /\ LET verts_orig == loaded_groups[SelectGroup(loaded_groups)].verts
           center_x_m == compute_center_x(verts_orig)
       IN  /\ verts_centered' = recenter_vertices_x(verts_orig, center_x_m)
           /\ stations_mesh' =
                  build_stations_from_geometry(verts_centered', vpl, TRUE)
           /\ new_block' = build_body_block(body_index, stations_mesh',
                               verts_centered', target_i, target_j,
                               Ft(center_x_m))
    /\ new_acf' = replace_body_block(acf_lines, body_index, new_block')
    /\ out_path' = DerivedPath(acf_path, body_index)
    /\ pc' = "open"
    /\ UNCHANGED <<fs, error, body_index, acf_lines, target_i, target_j>>
    /\ UNCHANGED <<vpl, loaded_groups>>
    /\ RunFrame

\* with open(out_path, "w") ...: the file is created or emptied
OpenOutput ==
    /\ pc = "open"
    /\ IF CanOpen(fs, out_path)
       THEN /\ fs' = [fs EXCEPT ![out_path] = TextFile(<<>>)]
            /\ pc' = "write"
            /\ error' = error
       ELSE /\ pc' = "failed"
            /\ error' = "OSError"
            /\ fs' = fs
    /\ UNCHANGED <<out_path, body_index, acf_lines, new_block, new_acf>>
    /\ UNCHANGED <<stations_mesh, target_i, target_j>>
    /\ UNCHANGED <<vpl, loaded_groups, verts_centered>>
    /\ RunFrame

\* for ln in new_acf: f.write(ln + "\n"), and the file is closed
WriteOutput ==
    /\ pc = "write"
    /\ fs' = [fs EXCEPT ![out_path] = TextFile(TerminatedLines(new_acf))]
    /\ pc' = "done"
    /\ UNCHANGED <<out_path, error, body_index, acf_lines, new_block, new_acf>>
    /\ UNCHANGED <<stations_mesh, target_i, target_j>>
    /\ UNCHANGED <<vpl, loaded_groups, verts_centered>>
    /\ RunFrame

\* what no step of rewrite_acf_bodies changes
RewriteFrame ==
    /\ UNCHANGED <<out_path, body_index, new_block>>
    /\ UNCHANGED <<stations_mesh, target_i, target_j>>
    /\ UNCHANGED <<vpl, loaded_groups, verts_centered>>
    /\ RunFrame

\* with open(acf_in_path) ...: lines = [ln.rstrip("\n") for ln in f]
RewriteRead ==
    /\ pc = "rewrite"
    /\ IF IsFile(fs, acf_path) /\ CanOpen(fs, acf_path)
       THEN /\ acf_lines' = ReadLines(fs[acf_path].text)
            /\ pc' = "scan"
            /\ error' = error
       ELSE /\ pc' = "failed"
            /\ error' = "OSError"
            /\ UNCHANGED acf_lines
    /\ UNCHANGED <<fs, new_acf>>
    /\ RewriteFrame

\* the search of the properties section and of its body lines, and the
\* new line list
RewriteScan ==
    /\ pc = "scan"
    /\ IF NoPropertiesBlock(acf_lines)
       THEN /\ pc' = "failed"
            /\ error' = "RuntimeError"
            /\ UNCHANGED new_acf
       ELSE /\ new_acf' = RewrittenLines(acf_lines, new_block)
            /\ pc' = "rewrite_open"
            /\ error' = error
    /\ UNCHANGED <<fs, acf_lines>>
    /\ RewriteFrame

\* with open(acf_out_path, "w") ...: the file is created or emptied
RewriteOpen ==
    /\ pc = "rewrite_open"
    /\ IF CanOpen(fs, out_path)
       THEN /\ fs' = [fs EXCEPT ![out_path] = TextFile(<<>>)]
            /\ pc' = "rewrite_write"
            /\ error' = error
       ELSE /\ pc' = "failed"
            /\ error' = "OSError"
            /\ fs' = fs
    /\ UNCHANGED <<acf_lines, new_acf>>
    /\ RewriteFrame

\* f.write("\n".join(new_lines)), and the file is closed
RewriteWrite ==
    /\ pc = "rewrite_write"
    /\ fs' = [fs EXCEPT ![out_path] = TextFile(JoinLines(new_acf))]
    /\ pc' = "rewrite_done"
    /\ UNCHANGED <<error, acf_lines, new_acf>>
    /\ RewriteFrame

NextRun ==
    \/ CheckEntries
    \/ ReadAcf
    \/ LoadObj
    \/ BuildAndPatch
    \/ OpenOutput
    \/ WriteOutput
    \/ RewriteRead
    \/ RewriteScan
    \/ RewriteOpen
    \/ RewriteWrite

SpecRun == InitRun /\ [][NextRun]_vars

----------------------------------------------------------------------------
(* Inputs of topology stationing *)

\* layers of a tube mesh: the (x, y) of their vertices in 10^-4 m, x even
\* an octagon with its top and bottom on the centerline
RING_OCT ==
    << <<6, 0>>, <<0, -6>>, <<4, 4>>, <<-4, -4>>, <<0, 6>>, <<-6, 0>>,
       <<4, -4>>, <<-4, 4>> >>

\* one half of a ring, one vertex on the centerline
RING_RIGHT ==
    << <<8, -2>>, <<2, 6>>, <<0, 8>>, <<6, -4>>, <<8, 2>>, <<2, -8>>,
       <<6, 4>>, <<2, -6>> >>

\* the other half, no vertex on the centerline
RING_LEFT ==
    << <<-8, -2>>, <<-2, 6>>, <<-2, 8>>, <<-6, -4>>, <<-8, 2>>, <<-2, -8>>,
       <<-6, 4>>, <<-4, -6>> >>

\* ten vertices, five on each side, none on the centerline
RING_DECA ==
    << <<8, 0>>, <<-2, 8>>, <<6, 6>>, <<-6, -6>>, <<2, -8>>, <<-8, 0>>,
       <<2, 8>>, <<-6, 6>>, <<6, -6>>, <<-2, -8>> >>

\* three centerline vertices, two of them equally high
RING_FLAT ==
    << <<4, 2>>, <<0, 6>>, <<6, -2>>, <<0, -6>>, <<0, 6>>, <<-4, 2>>,
       <<2, -4>>, <<-6, -2>>, <<-2, -4>> >>

\* two centerline vertices above the axis, the upper one more than the
\* radius buffer away from it
RING_HIGH ==
    << <<4, 4>>, <<0, 2>>, <<-4, 4>>, <<6, -2>>, <<0, 4000>>, <<-6, -2>>,
       <<4, -4>>, <<-4, -4>> >>

\* two centerline vertices at one place
RING_TWIN ==
    << <<4, 2>>, <<0, 6>>, <<6, -2>>, <<-6, -2>>, <<0, 6>>, <<-4, 2>>,
       <<2, -4>>, <<-2, -4>> >>

\* too few, too many vertices for a ring; too many on one side
RING_PAIR == << <<0, 2>>, <<0, -2>> >>
RING_17 == [n \in 1..17 |-> <<2 * (n - 9), 20 - n>>]
RING_WIDE == [n \in 1..16 |-> <<2 * (n - 6), 20 - n>>]

MidRings ==
    { RING_OCT, RING_RIGHT, RING_LEFT, RING_DECA, RING_FLAT, RING_HIGH,
      RING_TWIN, RING_PAIR, RING_17, RING_WIDE }

HeadLayers == { << <<0, 0>> >>, << <<-8, 2>> >>, << <<8, 2>> >> }
TailLayers == { <<>>, << <<0, 0>> >>, RING_PAIR }

\* number of vertices before layer k
LayerStart(layers, k) == SumSeq([n \in 1..(k - 1) |-> Len(layers[n])])

\* the vertices of a tube: layer k at z = 10 k; with 'bulge' the first
\* vertex of the second layer lies beyond every other
TubeVerts(layers, bulge) ==
    [v \in 1..LayerStart(layers, Len(layers) + 1) |->
        LET k == CHOOSE n \in 1..Len(layers) :
                     LayerStart(layers, n) < v /\ v <= LayerStart(layers, n + 1)
            xy == layers[k][v - LayerStart(layers, k)]
        IN  <<xy[1], xy[2],
              IF bulge /\ k = 2 /\ v = LayerStart(layers, k) + 1
              THEN 1000 ELSE 10 * k>>]

\* its faces: triangles between each layer and the next
TubeFaces(layers) ==
    LET Between(k) ==
            LET a == Len(layers[k])
                b == Len(layers[k + 1])
                sa == LayerStart(layers, k)
                sb == LayerStart(layers, k + 1)
            IN  [j \in 1..Max2(a, b) |->
                    <<sa + ((j - 1) % a), sb + ((j - 1) % b), sb + (j % b)>>]
        RECURSIVE From(_)
        From(k) == IF k >= Len(layers) THEN <<>>
                   ELSE Between(k) \o From(k + 1)
    IN  From(1)

\* the layers between head and tail: any ring first, then whole octagons
\* or pairs
FollowRings == { RING_OCT, RING_PAIR }

MidLayerLists ==
    {<<>>} \cup {<<r>> \o m : r \in MidRings,
                              m \in SeqsUpTo(FollowRings, MaxMidRings - 1)}

TubeLayerLists ==
    {<<h>> \o m \o (IF t = <<>> THEN <<>> ELSE <<t>>) :
        h \in HeadLayers, m \in MidLayerLists, t \in TailLayers}

\* small meshes: four vertices and faces of one to four vertices, with
\* repeated vertices and vertices of no face
SmallVerts ==
    { << <<0, 0, 0>>, <<2, 0, 5>>, <<0, 2, 5>>, <<2, 2, 9>> >>,
      << <<0, 0, 3>>, <<2, 0, 3>>, <<0, 2, 1>>, <<2, 2, 1>> >>,
      << <<0, 0, 4>>, <<2, 0, 7>>, <<0, 2, 2>>, <<2, 2, 5>> >> }

SmallFaces ==
    { <<0>>, <<1, 1>>, <<0, 1>>, <<3, 0>>, <<0, 1, 2>>, <<2, 1, 3>>,
      <<0, 2, 2, 3>>, <<3, 1, 0, 2>> }

SmallFaceLists == SeqsUpTo(SmallFaces, MaxFaces)

\* a group of one vertex, in no face or in faces that repeat it
LoneVerts == << <<4, 2, 7>> >>
LoneFaceLists == { <<>>, << <<0>> >>, << <<0, 0>> >> }

\* a tube whose second layer is a single vertex, the one of greatest z,
\* with an octagon behind it
NeckLayers == << << <<0, 0>> >>, << <<0, 0>> >>, RING_OCT >>

\* the meshes drawn: <<vertices, faces>>
Meshes ==
    {<<TubeVerts(layers, FALSE), TubeFaces(layers)>> : layers \in TubeLayerLists}
        \cup {<<TubeVerts(<<h>> \o m \o <<h>>, TRUE), TubeFaces(<<h>> \o m \o <<h>>)>> :
                 h \in {<< <<0, 0>> >>}, m \in MidLayerLists}
        \cup {<<TubeVerts(NeckLayers, TRUE), TubeFaces(NeckLayers)>>}
        \cup {<<v, f>> : v \in SmallVerts, f \in SmallFaceLists}
        \cup {<<LoneVerts, f>> : f \in LoneFaceLists}

----------------------------------------------------------------------------
(* Specification of topology stationing: the steps of                      *)
(* build_pm_rings_for_mesh on one mesh                                     *)

InitTopo ==
    /\ pc = "mesh"
    /\ body_index = 0
    /\ PatchIdle
    /\ GridIdle
    /\ LinesIdle
    /\ TemplateIdle
    /\ FilesIdle
    /\ EntryIdle
    /\ GenIdle
    /\ \E mesh \in Meshes :
           /\ mesh_verts = mesh[1]
           /\ mesh_faces = mesh[2]
    /\ set_iteration \in {"ascending", "descending"}
    /\ adjacency = <<>>
    /\ layering = <<>>
    /\ grouping = <<>>
    /\ pm_rings = <<>>

TopoFrame ==
    UNCHANGED <<patchVars, gridVars, linesVars, templateVars, fileVars,
                entryVars, genVars, mesh_verts, mesh_faces, set_iteration>>

\* neighbors = build_vertex_adjacency(num_verts, faces)
BuildVertexAdjacency ==
    /\ pc = "mesh"
    /\ adjacency' = build_vertex_adjacency(Len(mesh_verts), mesh_faces,
                                           set_iteration)
    /\ pc' = "adjacency"
    /\ UNCHANGED <<layering, grouping, pm_rings>>
    /\ TopoFrame

\* dist, nose, tail = compute_topological_layers(verts_m, neighbors)
ComputeTopologicalLayers ==
    /\ pc = "adjacency"
    /\ layering' = compute_topological_layers(mesh_verts, adjacency)
    /\ pc' = "layers"
    /\ UNCHANGED <<adjacency, grouping, pm_rings>>
    /\ TopoFrame

\* station_vertex_groups = build_station_vertex_groups(verts_local, neighbors)
BuildStationVertexGroups ==
    /\ pc = "layers"
    /\ grouping' = build_station_vertex_groups(mesh_verts, adjacency)
    /\ pc' = "stations"
    /\ UNCHANGED <<adjacency, layering, pm_rings>>
    /\ TopoFrame

\* part_x_ft, rings, half_n_max = build_pm_rings_for_mesh(verts_m, faces)
BuildPmRings ==
    /\ pc = "stations"
    /\ pm_rings' = build_pm_rings_for_mesh(mesh_verts, mesh_faces,
                                           set_iteration)
    /\ pc' = "rings"
    /\ UNCHANGED <<adjacency, layering, grouping>>
    /\ TopoFrame

\* the record build_bodies_from_obj appends for a group
BodyOf(body_index_, name, pm) ==
    [ body_index |-> body_index_,
      group_name |-> name,
      part_x_ft |-> pm.part_x_ft,
      part_rad_ft |-> compute_part_rad_from_rings(pm.rings, 1),
      rings |-> pm.rings,
      half_n_max |-> pm.half_n_max ]

\* templates of the topology pipeline: the radius and two geometry lines
T_PART_RAD == <<"P"," ","_","b","o","d","y","/","b","/","_","p","a","r","t","_","r","a","d"," ","0",".","0","0","0","0","0","0","0","0","0">>
T_GEO_110 == <<"P"," ","_","b","o","d","y","/","b","/","_","g","e","o","_","x","y","z","/","1",",","1",",","0"," ","0",".","0","0","0","0","0","0","0","0","0">>

TopoTemplates ==
    { <<T_PART_RAD, T_GEO_110, T_GEO_INDENTED>>,
      <<T_GEO_000, T_PART_RAD, T_GEO_112>> }

\* build_bodies_from_obj for a file of one group: the group is skipped, or
\* build_pm_rings_for_mesh raises, or the body is recorded; a recorded
\* body goes to one of the two block builders
BuildBodiesFromObj ==
    /\ pc = "rings"
    /\ IF mesh_faces = <<>> \/ Len(mesh_verts) < 10
       THEN pc' = "skipped" /\ UNCHANGED <<linesVars, templateVars>>
       ELSE IF pm_rings.error # ""
       THEN pc' = "raised" /\ UNCHANGED <<linesVars, templateVars>>
       ELSE IF pm_rings.rings = <<>>
       THEN pc' = "skipped" /\ UNCHANGED <<linesVars, templateVars>>
       ELSE /\ bodies' = <<BodyOf(0, S_FUSELAGE, pm_rings)>>
            /\ \/ /\ pc' = "lines"
                  /\ total_stations' \in 0..MaxTargetI
                  /\ points_per_ring' \in 0..MaxTargetJ
                  /\ UNCHANGED <<body_lines, templateVars>>
               \/ /\ pc' = "template"
                  /\ \E t \in TopoTemplates :
                         template_file' = TerminatedLines(t)
                  /\ UNCHANGED <<total_stations, points_per_ring,
                                 body_lines, built>>
    /\ UNCHANGED <<patchVars, gridVars, fileVars, entryVars, topoVars,
                genVars>>

NextTopo ==
    \/ BuildVertexAdjacency
    \/ ComputeTopologicalLayers
    \/ BuildStationVertexGroups
    \/ BuildPmRings
    \/ BuildBodiesFromObj
    \/ BuildBodyBlockLines
    \/ BuildBodyBlockFromTemplate

SpecTopo == InitTopo /\ [][NextTopo]_vars

----------------------------------------------------------------------------
(* Inputs of the z-sorted pipeline: the vertices of a group *)

\* vertices (x, y, z) in 10^-4 m: two of the least z, two of the greatest
GroupVertices ==
    << <<2, 3, 5>>, <<-4, 1, 0>>, <<0, -12000, 9>>, <<6, -2, 0>>, <<-2, 4, 9>>,
       <<4, 0, 3>>, <<-6, -4, 7>>, <<0, 2, 5>>, <<8, 6, 4>> >>

\* the first n of them, as they stand, reversed, or starting at the third
VertexLists ==
    UNION {LET vs == SubSeq(GroupVertices, 1, n)
           IN  {vs, Reverse(vs), Slice(vs, 2, n) \o Slice(vs, 0, 2)} :
               n \in 0..Min2(MaxVerts, Len(GroupVertices))}

----------------------------------------------------------------------------
(* Specification of the z-sorted pipeline: the steps of run_once from the  *)
(* recentred group to the body block                                       *)

InitStation ==
    /\ pc = "stationing"
    /\ body_index = 3
    /\ acf_lines = <<>>
    /\ new_block = <<>>
    /\ block_kind = "builder"
    /\ new_acf = <<>>
    /\ runs = 0
    /\ stations_mesh = <<>>
    /\ target_i \in 0..MaxTargetI
    /\ target_j \in 0..MaxTargetJ
    /\ geo_lines = <<>>
    /\ LinesIdle
    /\ TemplateIdle
    /\ FilesIdle
    /\ TopoIdle
    /\ GenIdle
    /\ entry_body_index = <<>>
    /\ entry_verts_per_loop = <<>>
    /\ vpl \in 1..MaxLoop
    /\ \E vs \in VertexLists :
           /\ loaded_groups = <<[name |-> S_FUSELAGE, verts |-> vs]>>
           /\ verts_centered = recenter_vertices_x(vs, compute_center_x(vs))

StationFrame ==
    UNCHANGED <<acf_lines, body_index, block_kind, new_acf, runs, target_i,
                target_j, geo_lines, linesVars, templateVars, fileVars,
                entryVars, topoVars,
                genVars>>

\* stations = build_stations_from_geometry(verts, vpl, with_tip_tail=True)
BuildStations ==
    /\ pc = "stationing"
    /\ stations_mesh' = build_stations_from_geometry(verts_centered, vpl, TRUE)
    /\ pc' = "stationed"
    /\ UNCHANGED new_block
    /\ StationFrame

\* new_block = build_body_block(body_index, stations, verts, target_i,
\*                              target_j, lateral_offset_ft)
BuildBodyBlock ==
    /\ pc = "stationed"
    /\ new_block' = build_body_block(body_index, stations_mesh,
                                     verts_centered, target_i, target_j,
                                     Ft(compute_center_x(loaded_groups[1].verts)))
    /\ pc' = "block_built"
    /\ UNCHANGED stations_mesh
    /\ StationFrame

NextStation == BuildStations \/ BuildBodyBlock

SpecStation == InitStation /\ [][NextStation]_vars

----------------------------------------------------------------------------
(* Specification of the print order: the line builder applied to grids of  *)
(* more than ten stations and slots                                        *)

\* rings whose points all differ: ring i, slot j at (100 i + j, -(i + j), i)
OrderRings(ni, nj) ==
    [i \in 1..ni |-> [j \in 1..nj |->
        <<Ft(100 * i + j), Ft(0 - (i + j)), Ft(i)>>]]

InitOrder ==
    /\ pc = "lines"
    /\ body_index = 0
    /\ \E rings \in {OrderRings(3, 2), OrderRings(MaxOrder, MaxOrder - 1)} :
           bodies = <<Body(rings)>>
    /\ total_stations \in 0..MaxOrder
    /\ points_per_ring \in 0..MaxOrder
    /\ body_lines = <<>>
    /\ PatchIdle
    /\ GridIdle
    /\ TemplateIdle
    /\ FilesIdle
    /\ EntryIdle
    /\ TopoIdle
    /\ GenIdle

NextOrder == BuildBodyBlockLines

SpecOrder == InitOrder /\ [][NextOrder]_vars

----------------------------------------------------------------------------
(* Specification of the target grid reader: read_target_dims_from_acf      *)
(* applied to line lists                                                   *)

\* count lines of body 1 (two for i, one indented, one negative), of body
\* 10, lines whose value does not parse or is missing, a line whose name
\* goes on after the parameter name, a line of another section
D_I_3 == <<"P"," ","_","b","o","d","y","/","1","/","_","l","o","c","k","e","d","/","i","_","c","o","u","n","t"," ","3">>
D_I_5 == <<" "," ","P"," ","_","b","o","d","y","/","1","/","_","l","o","c","k","e","d","/","i","_","c","o","u","n","t"," ","5">>
D_I_NEG == <<"P"," ","_","b","o","d","y","/","1","/","_","l","o","c","k","e","d","/","i","_","c","o","u","n","t"," ","-","2">>
D_J_4 == <<"P"," ","_","b","o","d","y","/","1","/","_","l","o","c","k","e","d","/","j","_","c","o","u","n","t"," ","4">>
D_I_BAD == <<"P"," ","_","b","o","d","y","/","1","/","_","l","o","c","k","e","d","/","i","_","c","o","u","n","t"," ","x">>
D_J_NONE == <<"P"," ","_","b","o","d","y","/","1","/","_","l","o","c","k","e","d","/","j","_","c","o","u","n","t">>
D_I_LONG == <<"P"," ","_","b","o","d","y","/","1","/","_","l","o","c","k","e","d","/","i","_","c","o","u","n","t","_","o","l","d"," ","6">>
D_I10_7 == <<"P"," ","_","b","o","d","y","/","1","0","/","_","l","o","c","k","e","d","/","i","_","c","o","u","n","t"," ","7">>
D_J10_9 == <<"P"," ","_","b","o","d","y","/","1","0","/","_","l","o","c","k","e","d","/","j","_","c","o","u","n","t"," ","9">>

DimLines ==
    { D_I_3, D_I_5, D_I_NEG, D_J_4, D_I_BAD, D_J_NONE, D_I_LONG, D_I10_7,
      D_J10_9, L_OTHER }

InitDims ==
    /\ pc = "dims"
    /\ acf_lines \in SeqsUpTo(DimLines, MaxDimLen)
    /\ body_index \in {1, 10}
    /\ new_block = <<>>
    /\ block_kind = "free"
    /\ new_acf = <<>>
    /\ runs = 0
    /\ GridIdle
    /\ LinesIdle
    /\ TemplateIdle
    /\ FilesIdle
    /\ EntryIdle
    /\ TopoIdle
    /\ GenIdle

\* target_i, target_j = read_target_dims_from_acf(acf_lines, body_index)
ReadTargetDims ==
    /\ pc = "dims"
    /\ target_i' = read_target_dims_from_acf(acf_lines, body_index)[1]
    /\ target_j' = read_target_dims_from_acf(acf_lines, body_index)[2]
    /\ pc' = "dims_read"
    /\ UNCHANGED <<acf_lines, body_index, new_block, block_kind, new_acf,
                   runs, stations_mesh, geo_lines>>
    /\ UNCHANGED <<linesVars, templateVars, fileVars, entryVars, topoVars,
                genVars>>

NextDims == ReadTargetDims

SpecDims == InitDims /\ [][NextDims]_vars

----------------------------------------------------------------------------
(* The topology run: generate_bodies_and_rewrite_acf,                      *)
(* src/files/OLD/cis_bodies2pm_working.py                                  *)

\* the names that build_bodies_from_obj puts first
PriorityNames ==
    << <<"F","u","s","e","l","a","g","e","_","C","h","i","e","f","t","a","i","n","_","f","u","s","e","_","o","n","l","y","_","M","e","s","h",".","0","0","0","1">>, <<"L","F","_","C","o","w","l","i","n","g","_","C","y","l","i","n","d","e","r",".","0","0","1">>,
       <<"R","T","_","C","o","w","l","i","n","g","_","C","y","l","i","n","d","e","r",".","0","0","2">> >>

\* order: the priority names among the groups, then the others in file
\* order; the positions of the groups in that order
GroupOrder(groups) ==
    LET Has(name) == \E n \in 1..Len(groups) : groups[n].name = name
        Prior(n) == \E k \in 1..Len(PriorityNames) :
                        PriorityNames[k] = groups[n].name
        PlaceOf(name) == CHOOSE n \in 1..Len(groups) : groups[n].name = name
        first == SelectSeq(PriorityNames, Has)
        NotPrior(n) == ~Prior(n)
    IN  [k \in 1..Len(first) |-> PlaceOf(first[k])]
            \o SelectSeq([n \in 1..Len(groups) |-> n], NotPrior)

\* a group that is no body: no faces, or fewer than 10 vertices
NotABody(group) == group.faces = <<>> \/ Len(group.verts_m) < 10

\* one pass of the loop of build_bodies_from_obj: the group at position k
\* of the order, the outcome pm of build_pm_rings_for_mesh on it, and the
\* outcome of the passes after it
BodiesPass(group, k, pm, rest) ==
    IF NotABody(group) THEN rest
    ELSE IF pm.error # "" THEN [error |-> pm.error, bodies |-> <<>>]
    ELSE IF pm.rings = <<>> \/ rest.error # "" THEN rest
    ELSE [error |-> "",
          bodies |-> <<BodyOf(k - 1, group.name, pm)>> \o rest.bodies]

RECURSIVE BodiesFrom(_, _, _, _)
\* the loop of build_bodies_from_obj from position k of the order on
BodiesFrom(groups, order, k, set_order) ==
    IF k > Len(order) THEN [error |-> "", bodies |-> <<>>]
    ELSE CHOOSE r \in
             { BodiesPass(groups[order[k]], k, pm, rest) :
                 pm \in {build_pm_rings_for_mesh(groups[order[k]].verts_m,
                                                 groups[order[k]].faces,
                                                 set_order)},
                 rest \in {BodiesFrom(groups, order, k + 1, set_order)} } :
             TRUE

\* the error raised, or the bodies of the groups
build_bodies_from_obj(groups, set_order) ==
    BodiesFrom(groups, GroupOrder(groups), 1, set_order)

\* by_name[mesh_name]: the last body of that name
ByName(bods, mesh_name) ==
    bods[CHOOSE n \in 1..Len(bods) :
             /\ bods[n].group_name = mesh_name
             /\ \A m \in (n + 1)..Len(bods) : bods[m].group_name # mesh_name]

\* mutant: a later row of the same index replaces the earlier one
BodiesByIndex_LastWins(bods, rows) ==
    LET Found(n) == \E m \in 1..Len(bods) :
                        bods[m].group_name = rows[n].mesh_name
        Taken(n) == /\ Found(n)
                    /\ ~(\E m \in (n + 1)..Len(rows) :
                            Found(m) /\ rows[m].body_index = rows[n].body_index)
        RowOf(i) == CHOOSE n \in 1..Len(rows) :
                        Taken(n) /\ rows[n].body_index = i
    IN  [i \in {rows[n].body_index : n \in {m \in 1..Len(rows) : Taken(m)}} |->
            LET row == rows[RowOf(i)]
                src_body == ByName(bods, row.mesh_name)
            IN  [ body_index |-> i,
                  group_name |-> src_body.group_name,
                  part_x_ft |-> src_body.part_x_ft,
                  part_rad_ft |-> src_body.part_rad_ft,
                  rings |-> src_body.rings,
                  half_n_max |-> src_body.half_n_max,
                  pm_name |-> IF strip(row.pm_name) # <<>>
                              THEN strip(row.pm_name) ELSE row.mesh_name ]]

\* bodies_by_index: the loop over the rows; a row is skipped when its mesh
\* is not among the bodies or its index is already taken
BodiesByIndex(bods, rows) ==
    LET Found(n) == \E m \in 1..Len(bods) :
                        bods[m].group_name = rows[n].mesh_name
        Taken(n) == /\ Found(n)
                    /\ ~(\E m \in 1..(n - 1) :
                            Found(m) /\ rows[m].body_index = rows[n].body_index)
        RowOf(i) == CHOOSE n \in 1..Len(rows) :
                        Taken(n) /\ rows[n].body_index = i
    IN  [i \in {rows[n].body_index : n \in {m \in 1..Len(rows) : Taken(m)}} |->
            LET row == rows[RowOf(i)]
                src_body == ByName(bods, row.mesh_name)
            IN  [ body_index |-> i,
                  group_name |-> src_body.group_name,
                  part_x_ft |-> src_body.part_x_ft,
                  part_rad_ft |-> src_body.part_rad_ft,
                  rings |-> src_body.rings,
                  half_n_max |-> src_body.half_n_max,
                  pm_name |-> IF strip(row.pm_name) # <<>>
                              THEN strip(row.pm_name) ELSE row.mesh_name ]]

RECURSIVE AllLines(_, _, _)
\* the loop over ordered_bodies from body i on: the first error raised by
\* build_body_block_from_template, or the blocks joined
AllLines(ordered_bodies, i, template_lines) ==
    IF i >= Len(ordered_bodies) THEN [error |-> "", out_lines |-> <<>>]
    ELSE CHOOSE r \in
             { IF block.error # "" THEN block
               ELSE IF rest.error # "" THEN rest
               ELSE [error |-> "",
                     out_lines |-> block.out_lines \o rest.out_lines] :
                 block \in {build_body_block_from_template(ordered_bodies, i,
                                                           template_lines)},
                 rest \in {AllLines(ordered_bodies, i + 1, template_lines)} } :
             TRUE

\* the end of generate_bodies_and_rewrite_acf before rewrite_acf_bodies is
\* called: "returned" after a logged error, "raised" when the template
\* filler raises, "rewrite" when the call is made with the lines
FillBlocks(bodies_by_index, template_lines) ==
    LET indices == DOMAIN bodies_by_index
    IN  IF indices = {}
        THEN [to |-> "returned", error |-> "", lines |-> <<>>]
        ELSE IF indices # 0..(Cardinality(indices) - 1)
        THEN [to |-> "returned", error |-> "", lines |-> <<>>]
        ELSE CHOOSE r \in
                 { IF all_lines.error # ""
                   THEN [to |-> "raised", error |-> all_lines.error,
                         lines |-> <<>>]
                   ELSE [to |-> "rewrite", error |-> "",
                         lines |-> all_lines.out_lines] :
                     all_lines \in
                         { AllLines(ordered_bodies, 0, template_lines) :
                             ordered_bodies \in
                                 {[n \in 1..Cardinality(indices) |->
                                      bodies_by_index[n - 1]]} } } :
                 TRUE

\* generate_bodies_and_rewrite_acf up to the call of rewrite_acf_bodies,
\* from the outcome of build_bodies_from_obj
generate_bodies(built_bodies, rows, template_lines) ==
    IF built_bodies.error # ""
    THEN [to |-> "returned", error |-> "", lines |-> <<>>]
    ELSE CHOOSE r \in
             { FillBlocks(bodies_by_index, template_lines) :
                 bodies_by_index \in {BodiesByIndex(built_bodies.bodies, rows)} } :
             TRUE

----------------------------------------------------------------------------
(* Specification of the topology run: the table is resolved, then          *)
(* rewrite_acf_bodies runs, cut at its file operations                     *)

G_HULL == <<"H","u","l","l">>
G_COWLING == <<"L","F","_","C","o","w","l","i","n","g","_","C","y","l","i","n","d","e","r",".","0","0","1">>
G_WING == <<"W","i","n","g">>

\* a tube of ten vertices that yields rings; one whose ring has no vertex
\* at x >= 0, which is refused; a group of four vertices, which is skipped
GoodTube == << << <<0, 0>> >>, RING_OCT, << <<0, 0>> >> >>
BadTube == << << <<0, 0>> >>, RING_LEFT, << <<0, 0>> >> >>

Group(name, layers) ==
    [name |-> name, verts_m |-> TubeVerts(layers, FALSE),
     faces |-> TubeFaces(layers)]

SmallGroup(name) ==
    [name |-> name,
     verts_m |-> << <<0, 0, 0>>, <<2, 0, 5>>, <<0, 2, 5>>, <<2, 2, 9>> >>,
     faces |-> << <<0, 1, 2>>, <<2, 1, 3>> >>]

\* the OBJ files drawn, as lists of groups in file order
GroupLists ==
    { <<>>,
      <<Group(G_HULL, GoodTube)>>,
      <<SmallGroup(G_HULL)>>,
      <<Group(G_HULL, BadTube)>>,
      <<Group(G_HULL, GoodTube), Group(G_COWLING, GoodTube)>>,
      <<Group(G_HULL, GoodTube), SmallGroup(G_COWLING)>>,
      <<Group(G_HULL, GoodTube), Group(G_COWLING, BadTube)>> }

\* rows of the table: mesh name, body index, name for the description
Row(mesh_name, b, pm_name) ==
    [mesh_name |-> mesh_name, body_index |-> b, pm_name |-> pm_name]

RowPool ==
    { Row(G_HULL, 0, <<>>), Row(G_COWLING, 0, <<" ","N","a","c","e","l","l","e"," ">>),
      Row(G_COWLING, 1, <<" ">>), Row(G_COWLING, 2, <<"P","o","d">>),
      Row(G_WING, 0, <<"W","i","n","g">>) }

\* templates: one that every body fills, one with a geometry line beyond
\* the grid of its own first pass
GenTemplates ==
    { <<T_PART_RAD, <<"P"," ","_","b","o","d","y","/","b","/","_","d","e","s","c","r","i","p"," ","x">>, T_GEO_110>>,
      <<T_GEO_INDENTED, <<"P"," ","_","b","o","d","y","/","b","/","_","d","e","s","c","r","i","p"," ","x">>>> }

\* ACF files: with a properties section holding a body line, without one
GenDocs ==
    { <<L_OTHER, L_BEGIN, L_BODY1_A, L_OTHER, L_END>>, <<L_OTHER, L_END>> }

InitGen ==
    /\ pc = "generate"
    /\ obj_groups \in GroupLists
    /\ mesh_rows \in SeqsUpTo(RowPool, MaxRows)
    /\ \E t \in GenTemplates : template_file = TerminatedLines(t)
    /\ built = <<>>
    /\ acf_path = PATH_ACF
    /\ out_path = PATH_BODIES
    /\ obj_path = PATH_OBJ
    /\ \E acf \in {Absent} \cup {TextFile(TerminatedLines(d)) : d \in GenDocs},
          out \in {Absent, TextFile(OldOutput)} :
          fs = [p \in FsPaths |->
                   IF p = acf_path THEN acf
                   ELSE IF p = out_path THEN out
                   ELSE Absent]
    /\ fs_start = fs
    /\ error = ""
    /\ acf_lines = <<>>
    /\ body_index = 0
    /\ new_block = <<>>
    /\ block_kind = "builder"
    /\ new_acf = <<>>
    /\ runs = 0
    /\ GridIdle
    /\ LinesIdle
    /\ EntryIdle
    /\ TopoIdle

\* generate_bodies_and_rewrite_acf up to the call of rewrite_acf_bodies
GenerateBodies ==
    /\ pc = "generate"
    /\ \E built_bodies \in {build_bodies_from_obj(obj_groups, set_iteration)} :
           /\ bodies' = built_bodies.bodies
           /\ \E r \in {generate_bodies(built_bodies, mesh_rows,
                                         ReadLines(template_file))} :
                  /\ pc' = r.to
                  /\ error' = r.error
                  /\ new_block' = r.lines
    /\ UNCHANGED <<acf_lines, body_index, block_kind, new_acf, runs>>
    /\ UNCHANGED <<fs, fs_start, acf_path, obj_path, out_path>>
    /\ UNCHANGED <<total_stations, points_per_ring, body_lines>>
    /\ UNCHANGED <<gridVars, templateVars, entryVars, topoVars, genVars>>

NextGen ==
    \/ GenerateBodies
    \/ RewriteRead
    \/ RewriteScan
    \/ RewriteOpen
    \/ RewriteWrite

SpecGen == InitGen /\ [][NextGen]_vars

----------------------------------------------------------------------------
(* Claims about replace_body_block *)

\* ownership as the claims state it: after the leading whitespace the line
\* reads 'P _body/', the decimal index, '/'
ClaimOwned(l, b) ==
    LET want == S_P_BODY \o Dec(b) \o <<"/">>
        k == IF \A i \in 1..Len(l) : l[i] \in Whitespace THEN Len(l)
             ELSE (CHOOSE i \in 1..Len(l) :
                      /\ l[i] \notin Whitespace
                      /\ \A m \in 1..(i - 1) : l[m] \in Whitespace) - 1
    IN  /\ Len(l) - k >= Len(want)
        /\ SubSeq(l, k + 1, k + Len(want)) = want

ClaimHasOwned(lines, b) == \E i \in 1..Len(lines) : ClaimOwned(lines[i], b)

ClaimFirstOwned(lines, b) ==
    CHOOSE i \in 1..Len(lines) :
        /\ ClaimOwned(lines[i], b)
        /\ \A k \in 1..(i - 1) : ~ClaimOwned(lines[k], b)

ClaimNotOwnedLines(lines, b) ==
    LET Other(l) == ~ClaimOwned(l, b) IN SelectSeq(lines, Other)

ClaimOwnedLines(lines, b) ==
    LET Own(l) == ClaimOwned(l, b) IN SelectSeq(lines, Own)

\* C1: when the document holds a line owned by body b, the result is the
\* lines before the first owned line, then the block, then the remaining
\* lines that b does not own, in their order; no such line is lost or added
C1_OwnedBlockReplacedInPlace ==
    (pc = "patched" /\ ClaimHasOwned(acf_lines, body_index)) =>
        LET f == ClaimFirstOwned(acf_lines, body_index)
            rest == SubSeq(acf_lines, f, Len(acf_lines))
        IN  /\ new_acf = SubSeq(acf_lines, 1, f - 1) \o new_block
                            \o ClaimNotOwnedLines(rest, body_index)
            /\ Len(new_acf) = Len(new_block)
                   + Len(ClaimNotOwnedLines(acf_lines, body_index))

\* C1 witness: body 1 patched in a document that also holds a body 10 line
\* and whose body 1 lines are separated by another line
C1_Witness ==
    /\ pc = "patched"
    /\ body_index = 1
    /\ new_block # <<>>
    /\ Len(acf_lines) = 3
    /\ ClaimOwned(acf_lines[1], 1)
    /\ acf_lines[2] = L_BODY10
    /\ ClaimOwned(acf_lines[3], 1)

\* the line of a document that reads PROPERTIES_BEGIN
ClaimIsBegin(l) == strip(l) = S_PROPERTIES_BEGIN

\* C3 (as claimed): with a PROPERTIES_BEGIN line and no line owned by b the
\* block is inserted right after the PROPERTIES_BEGIN line
C3_InsertedAfterPropertiesBegin ==
    (/\ pc = "patched"
     /\ ~ClaimHasOwned(acf_lines, body_index)
     /\ \E i \in 1..Len(acf_lines) : ClaimIsBegin(acf_lines[i])) =>
        LET p == CHOOSE i \in 1..Len(acf_lines) :
                    /\ ClaimIsBegin(acf_lines[i])
                    /\ \A k \in 1..(i - 1) : ~ClaimIsBegin(acf_lines[k])
        IN  new_acf = SubSeq(acf_lines, 1, p) \o new_block
                         \o SubSeq(acf_lines, p + 1, Len(acf_lines))

\* the lines owned by b are next to each other (or there is none)
ClaimOwnedContiguous(lines, b) ==
    LET owned == {i \in 1..Len(lines) : ClaimOwned(lines[i], b)}
    IN  \A i \in owned : \A j \in owned : \A k \in i..j : k \in owned

\* C4 (as claimed): patching any document with the block it holds returns
\* the document
C4_IdempotentAnyDocument ==
    (pc = "patched" /\ new_block = ClaimOwnedLines(acf_lines, body_index)) =>
        new_acf = acf_lines

\* C4 (amended): patching a document whose owned lines are contiguous with
\* the block it holds returns the document
C4_IdempotentContiguous ==
    (/\ pc = "patched"
     /\ new_block = ClaimOwnedLines(acf_lines, body_index)
     /\ ClaimOwnedContiguous(acf_lines, body_index)) =>
        new_acf = acf_lines

\* C4 witness: a two-line block between other lines is patched with itself
C4_Witness ==
    /\ pc = "patched"
    /\ block_kind = "current"
    /\ Len(new_block) = 2
    /\ ClaimOwnedContiguous(acf_lines, body_index)
    /\ Len(acf_lines) >= 3
    /\ ~ClaimOwned(acf_lines[1], body_index)

\* C5: after patching with a block built by build_body_block for index b,
\* the lines of the result owned by b are exactly the block, line for line,
\* whatever the order of the block's lines
C5_RoundTrip ==
    (pc = "patched" /\ block_kind = "builder") =>
        ClaimOwnedLines(new_acf, body_index) = new_block

\* C5 witness: a built block, listed in reverse order, has replaced two
\* separated lines of body 1 in a document that also holds body 10
C5_Witness ==
    /\ pc = "patched"
    /\ block_kind = "builder"
    /\ body_index = 1
    /\ startswith(new_block[1], S_P_BODY \o <<"1","/","_","t","o","p","_","t","2">>)
    /\ Len(acf_lines) = 3
    /\ ClaimOwned(acf_lines[1], 1)
    /\ acf_lines[2] = L_BODY10
    /\ ClaimOwned(acf_lines[3], 1)

----------------------------------------------------------------------------
(* Claims about the grid mappers *)

\* the text a geometry line of body b, station i, slot j, axis k starts with
ClaimGeoPath(b, i, j, k) ==
    S_P_BODY \o Dec(b) \o <<"/","_","g","e","o","_","x","y","z","/">> \o Dec(i) \o <<",">> \o Dec(j) \o <<",">>
        \o Dec(k) \o <<" ">>

\* the text every geometry line of body b, station i starts with
ClaimStationPath(b, i) ==
    S_P_BODY \o Dec(b) \o <<"/","_","g","e","o","_","x","y","z","/">> \o Dec(i) \o <<",">>

\* the positions of the lines for (i, j, k)
ClaimGeoHits(lines, b, i, j, k) ==
    LET path == ClaimGeoPath(b, i, j, k)
    IN  {n \in 1..Len(lines) : startswith(lines[n], path)}

\* the lines are one line for each cell of an ni x nj grid and nothing else
ClaimExactGrid(lines, b, ni, nj) ==
    /\ Len(lines) = ni * nj * 3
    /\ \A i \in 0..(ni - 1) : \A j \in 0..(nj - 1) : \A k \in 0..2 :
          Cardinality(ClaimGeoHits(lines, b, i, j, k)) = 1

ClaimGeoValue(lines, b, i, j, k, v) ==
    LET want == ClaimGeoPath(b, i, j, k) \o Fmt9(v)
    IN  \E n \in 1..Len(lines) : lines[n] = want

\* no line of station i is there
ClaimNoStation(lines, b, i) ==
    LET path == ClaimStationPath(b, i)
    IN  \A n \in 1..Len(lines) : ~startswith(lines[n], path)

\* the (x, y, z) a station of the z-sorted pipeline can put into a slot:
\* zeros, the mean point, a vertex or its mirror image
ClaimSlotChoices(station) ==
    {<<ZeroVal, ZeroVal, ZeroVal>>}
        \cup {<<ZeroVal,
                MeanFt(SumSeq([n \in 1..Len(station) |-> station[n][2]]),
                       Len(station)),
                MeanFt(SumSeq([n \in 1..Len(station) |-> station[n][3]]),
                       Len(station))>>}
        \cup {<<Ft(station[n][1]), Ft(station[n][2]), Ft(station[n][3])>> :
                 n \in 1..Len(station)}
        \cup {<<VNeg(Ft(station[n][1])), Ft(station[n][2]), Ft(station[n][3])>> :
                 n \in 1..Len(station)}

\* C7, z-sorted pipeline: with n non-empty mesh stations, the stations
\* n..target_i-1 are all zero, no station >= target_i is emitted, and the
\* stations emitted below min(n, target_i) come from the mesh station of
\* the same index
C7_GeoPadTruncate ==
    (/\ pc = "geo_done"
     /\ \A n \in 1..Len(stations_mesh) : stations_mesh[n] # <<>>) =>
        LET n == Len(stations_mesh)
            nj == SlotCount(target_j)
        IN  /\ \A i \in n..(target_i - 1) : \A j \in 0..(nj - 1) :
                  \A k \in 0..2 :
                     ClaimGeoValue(geo_lines, body_index, i, j, k, ZeroVal)
            /\ \A i \in target_i..(n - 1) :
                  ClaimNoStation(geo_lines, body_index, i)
            /\ \A i \in 0..(Min2(n, target_i) - 1) : \A j \in 0..(nj - 1) :
                  \E c \in ClaimSlotChoices(stations_mesh[i + 1]) :
                     \A k \in 0..2 :
                        ClaimGeoValue(geo_lines, body_index, i, j, k, c[k + 1])

\* C7, topology pipeline: with n rings, the stations n..total_stations-1
\* are all zero, no station >= total_stations is emitted, and station i
\* below min(n, total_stations) carries ring i, zero-filled
C7_LinesPadTruncate ==
    (pc = "lines_done") =>
        LET rings == bodies[body_index + 1].rings
            n == Len(rings)
        IN  /\ \A i \in n..(total_stations - 1) :
                  \A j \in 0..(points_per_ring - 1) : \A k \in 0..2 :
                     ClaimGeoValue(body_lines, body_index, i, j, k, ZeroVal)
            /\ \A i \in total_stations..(n - 1) :
                  ClaimNoStation(body_lines, body_index, i)
            /\ \A i \in 0..(Min2(n, total_stations) - 1) :
                  \A j \in 0..(points_per_ring - 1) : \A k \in 0..2 :
                     ClaimGeoValue(body_lines, body_index, i, j, k,
                                   IF j < Len(rings[i + 1])
                                   THEN rings[i + 1][j + 1][k + 1]
                                   ELSE ZeroVal)

\* C7: padding and truncation in both geometry emitters
C7_PadTruncate == C7_GeoPadTruncate /\ C7_LinesPadTruncate

\* C7 witness: three mesh stations truncated to two
C7_Witness ==
    /\ pc = "geo_done"
    /\ Len(stations_mesh) = 3
    /\ \A n \in 1..3 : stations_mesh[n] # <<>>
    /\ stations_mesh[1] # stations_mesh[3]
    /\ target_i = 2
    /\ geo_lines # <<>>

\* C7 second witness: one ring padded to three stations
C7_WitnessLines ==
    /\ pc = "lines_done"
    /\ Len(bodies[body_index + 1].rings) = 1
    /\ total_stations = 3
    /\ points_per_ring = 3
    /\ body_lines # <<>>

\* C10: build_body_block_from_template raises an error, and returns no
\* block, whenever no line of the template matches the geometry pattern
\* '_geo_xyz/i,j,k value'
C10_NoGeometryIsFatal ==
    (/\ pc = "template_done"
     /\ \A n \in 1..Len(ReadLines(template_file)) :
            /\ GeoMatch(ReadLines(template_file)[n]) = None
            /\ GeoMatch(strip(ReadLines(template_file)[n])) = None)
        => built.error # ""

----------------------------------------------------------------------------
(* Claims on the conversion runs *)

\* a run of rewrite_acf_bodies, which names no OBJ file
ClaimRewriteRun == obj_path = <<>>

ClaimIsMarker(l, marker) == strip(l) = marker

\* position (from 1) of the first PROPERTIES_END line, 0 when there is none
ClaimSectionEnd(lines) ==
    LET ends == {n \in 1..Len(lines) :
                    ClaimIsMarker(lines[n], S_PROPERTIES_END)}
    IN  IF ends = {} THEN 0 ELSE CHOOSE n \in ends : \A m \in ends : n <= m

\* position of the last PROPERTIES_BEGIN line before it, 0 when none
ClaimSectionStart(lines) ==
    LET begins == {n \in 1..(ClaimSectionEnd(lines) - 1) :
                      ClaimIsMarker(lines[n], S_PROPERTIES_BEGIN)}
    IN  IF begins = {} THEN 0
        ELSE CHOOSE n \in begins : \A m \in begins : m <= n

ClaimNoSection(lines) ==
    ClaimSectionEnd(lines) = 0 \/ ClaimSectionStart(lines) = 0

ClaimBodyLine(l) == startswith(lstrip(l), S_P_BODY)

\* positions of the body lines inside the properties section
ClaimSectionBodyLines(lines) ==
    {n \in (ClaimSectionStart(lines) + 1)..(ClaimSectionEnd(lines) - 1) :
        ClaimBodyLine(lines[n])}

RECURSIVE ClaimWithout(_, _)
\* the lines whose positions are not in S, in their order
ClaimWithout(lines, S) ==
    IF lines = <<>> THEN <<>>
    ELSE ClaimWithout(SubSeq(lines, 1, Len(lines) - 1), S)
             \o (IF Len(lines) \in S THEN <<>> ELSE <<lines[Len(lines)]>>)

\* 'out' is 'kept' with 'block' inserted at some position
ClaimInserted(out, kept, block) ==
    \E k \in 0..Len(kept) :
        out = SubSeq(kept, 1, k) \o block \o SubSeq(kept, k + 1, Len(kept))

\* C2: when rewrite_acf_bodies has written its output, the output holds the
\* new block and, around it, every input line but the 'P _body/' lines
\* inside the properties section, once each and in the input's order,
\* whether the old body lines were contiguous or interleaved with others
C2_OtherLinesKeptInOrder ==
    (ClaimRewriteRun /\ pc = "rewrite_done") =>
        /\ fs[out_path] = TextFile(JoinLines(new_acf))
        /\ ClaimInserted(new_acf,
               ClaimWithout(acf_lines, ClaimSectionBodyLines(acf_lines)),
               new_block)

\* the body lines inside the properties section follow one another
ClaimSectionBodyContiguous(lines) ==
    LET inside == ClaimSectionBodyLines(lines)
    IN  \A n \in inside, m \in inside :
            \A q \in n..m : q \in inside

\* the same holds of every run whose old body lines are contiguous
ClaimOtherLinesKeptWhenContiguous ==
    (/\ ClaimRewriteRun
     /\ pc = "rewrite_done"
     /\ ClaimSectionBodyContiguous(acf_lines)) =>
        /\ fs[out_path] = TextFile(JoinLines(new_acf))
        /\ ClaimInserted(new_acf,
               ClaimWithout(acf_lines, ClaimSectionBodyLines(acf_lines)),
               new_block)

\* the complete patched sequence of the run under way
ClaimPatched ==
    IF ClaimRewriteRun
    THEN ClaimInserted(new_acf,
             SubSeq(acf_lines, 1, BodyStart(acf_lines))
                 \o SubSeq(acf_lines, BodyEnd(acf_lines) + 2, Len(acf_lines)),
             new_block)
    ELSE new_acf = replace_body_block(acf_lines, body_index, new_block)

\* the output file is opened only when the patched sequence is built
ClaimOpenedAfterPatch ==
    fs # fs_start =>
        /\ pc \in {"write", "done", "rewrite_write", "rewrite_done"}
        /\ ClaimPatched
        /\ \A p \in FsPaths : p # out_path => fs[p] = fs_start[p]

\* a run that fails leaves every file as it was
ClaimFailureWritesNothing ==
    pc \in {"refused", "failed", "no_groups"} => fs = fs_start

\* the input ACF file is never written
ClaimInputUntouched == fs[acf_path] = fs_start[acf_path]

\* C8: in a conversion run (run_once, rewrite_acf_bodies) the output file is
\* opened for writing only after the complete patched line sequence is
\* built; a run that fails ends with no file created or modified; the input
\* ACF file is never written
C8_OutputAfterPatchInputNeverWritten ==
    /\ ClaimOpenedAfterPatch
    /\ ClaimFailureWritesNothing
    /\ ClaimInputUntouched

\* C9: rewrite_acf_bodies raises its error, with no file written, exactly
\* when the input has no PROPERTIES_END line (after trimming) or no
\* PROPERTIES_BEGIN line before the first PROPERTIES_END; otherwise it goes
\* on to write, fails only if a file cannot be opened, and takes the last
\* PROPERTIES_BEGIN before the first PROPERTIES_END as the section start:
\* the lines up to it are kept and the block goes to the first body line
\* after it, or right after it when the section has no body line
C9_FailsExactlyWithoutSection ==
    ClaimRewriteRun =>
        /\ (pc = "failed" /\ error = "RuntimeError") =>
               ClaimNoSection(acf_lines) /\ fs = fs_start
        /\ (pc = "failed" /\ error = "OSError") =>
               \/ ~(IsFile(fs_start, acf_path) /\ CanOpen(fs_start, acf_path))
               \/ ~CanOpen(fs_start, out_path)
        /\ pc \in {"rewrite_open", "rewrite_write", "rewrite_done"} =>
               /\ ~ClaimNoSection(acf_lines)
               /\ LET start == ClaimSectionStart(acf_lines)
                      inside == ClaimSectionBodyLines(acf_lines)
                      at == IF inside = {} THEN start + 1
                            ELSE CHOOSE n \in inside : \A m \in inside : n <= m
                  IN  /\ SubSeq(new_acf, 1, at - 1)
                             = SubSeq(acf_lines, 1, at - 1)
                      /\ SubSeq(new_acf, at, at + Len(new_block) - 1)
                             = new_block

\* the error is raised on a file that holds both markers, in the wrong order
C9_Witness ==
    /\ ClaimRewriteRun
    /\ pc = "failed"
    /\ error = "RuntimeError"
    /\ \E n \in 1..Len(acf_lines) :
           ClaimIsMarker(acf_lines[n], S_PROPERTIES_BEGIN)
    /\ \E n \in 1..Len(acf_lines) :
           ClaimIsMarker(acf_lines[n], S_PROPERTIES_END)

----------------------------------------------------------------------------
(* Claims on the template filler *)

\* the grid value at (i, j, k): the ring's coordinate, 0 where the body has
\* no ring i or the ring no slot j
ClaimGridValue(body, i, j, k) ==
    IF i < Len(body.rings) /\ j < Len(body.rings[i + 1])
    THEN body.rings[i + 1][j + 1][IF k > 1 THEN 3 ELSE k + 1]
    ELSE ZeroVal

\* the parameters of the block that the filler sets from the body
ClaimParameters ==
    { <<"_","p","a","r","t","_","x">>, <<"_","p","a","r","t","_","y">>, <<"_","p","a","r","t","_","z">>, <<"_","p","a","r","t","_","r","a","d">>, <<"_","r","_","d","i","m">>, <<"_","s","_","d","i","m">>,
      <<"_","d","e","s","c","r","i","p">> }

\* the output line that follows from one template line alone
ClaimTemplateOutput(line, body, b) ==
    LET stripped == strip(line)
        m == GeoMatch(stripped)
    IN  IF m # None
        THEN GeoLine(b, Get(m)[1], Get(m)[2], Get(m)[3],
                     ClaimGridValue(body, Get(m)[1], Get(m)[2], Get(m)[3]))
        ELSE IF \E p \in ClaimParameters : startswith(stripped, S_P_BODY_B \o p)
        THEN TemplateLine(line, body, b, <<>>)
        ELSE IF Contains(stripped, S_BODY_B)
        THEN Replace(stripped, S_BODY_B, <<"_","b","o","d","y","/">> \o Dec(b) \o S_SLASH)
        ELSE line

\* the output has one line per template line, each following from its own
\* template line
ClaimLinewise ==
    LET template_lines == ReadLines(template_file)
    IN  /\ Len(built.out_lines) = Len(template_lines)
        /\ \A n \in 1..Len(template_lines) :
               built.out_lines[n] =
                   ClaimTemplateOutput(template_lines[n],
                                       bodies[body_index + 1], body_index)

\* C11: for every template and every body build_body_block_from_template
\* returns one output line per template line, in the template's order, line
\* n following from template line n alone: a geometry line keeps its
\* (i, j, k) and takes the grid value, another '_body/b/' line has its
\* index token replaced, every other line is copied
C11_OneOutputLinePerTemplateLine ==
    pc = "template_done" => (built.error = "" /\ ClaimLinewise)

\* the same, of the runs that return a block
ClaimLinewiseWhenReturned ==
    (pc = "template_done" /\ built.error = "") => ClaimLinewise

----------------------------------------------------------------------------
(* Claims about topology stationing, checked under SpecTopo                *)

\* the vertices of the mesh, numbered from 0
ClaimVertices == 0..(Len(mesh_verts) - 1)

ClaimZ(v) == mesh_verts[v + 1][3]

\* the vertices given a distance, and the distance given
ClaimReached == {layering.dist[n][1] : n \in 1..Len(layering.dist)}

ClaimDistance(v) ==
    layering.dist[CHOOSE n \in 1..Len(layering.dist) : layering.dist[n][1] = v][2]

\* the layer at distance d
ClaimLayer(d) == {v \in ClaimReached : ClaimDistance(v) = d}

ClaimLayerDistances == {ClaimDistance(v) : v \in ClaimReached}

\* build_station_vertex_groups has just run
ClaimGrouped == pc = "stations"

\* the layer of the maximum-z vertex holds that vertex alone
ClaimTailLayerSingle ==
    /\ layering.tail \in ClaimReached
    /\ ClaimLayer(ClaimDistance(layering.tail)) = {layering.tail}

\* a layer other than the nose's and the tail's has fewer than 8 or more
\* than 16 vertices
ClaimBadMidLayer ==
    \E d \in ClaimLayerDistances :
        /\ d > 0
        /\ layering.tail \in ClaimReached => d # ClaimDistance(layering.tail)
        /\ ~(Cardinality(ClaimLayer(d)) \in 8..16)

ClaimStationsShape ==
    LET stations == grouping.stations
    IN  /\ Len(stations) >= 2
        /\ Len(stations[1]) = 1
        /\ \A v \in ClaimVertices : ClaimZ(stations[1][1]) <= ClaimZ(v)
        /\ Len(stations[Len(stations)]) = 1
        /\ \A v \in ClaimVertices : ClaimZ(v) <= ClaimZ(stations[Len(stations)][1])
        /\ \A n \in 2..(Len(stations) - 1) : Len(stations[n]) \in 8..16

\* C12: build_station_vertex_groups raises an error whenever the layer of
\* the maximum-z vertex does not hold exactly one vertex or another layer
\* at distance > 0 has fewer than 8 or more than 16 vertices; whenever it
\* returns, the first station is the single minimum-z vertex, the last the
\* single maximum-z vertex, and every station between has 8 to 16 vertices
C12_StationSizesEnforced ==
    ClaimGrouped =>
        /\ (~ClaimTailLayerSingle \/ ClaimBadMidLayer) => grouping.error # ""
        /\ grouping.error = "" => ClaimStationsShape

\* a tube of nose, two rings and tail is returned as four stations
C12_Witness ==
    /\ ClaimGrouped
    /\ grouping.error = ""
    /\ Len(grouping.stations) = 4

\* refused: the maximum-z vertex sits in a ring
C12_WitnessRefused ==
    /\ ClaimGrouped
    /\ grouping.error = "ValueError"
    /\ ~ClaimTailLayerSingle
    /\ ~ClaimBadMidLayer

\* C13: when a vertex of the group cannot be reached from the nose vertex
\* through face edges, build_station_vertex_groups reports a failure and
\* returns no station list
C13_UnreachableIsFailure ==
    ClaimGrouped =>
        (ClaimReached # ClaimVertices => grouping.error # "")

\* what the code does detect: a maximum-z vertex that was not reached
ClaimUnreachedTailIsFailure ==
    ClaimGrouped =>
        (~(layering.tail \in ClaimReached) => grouping.error = "KeyError")

\* compute_topological_layers has just run
ClaimLayered == pc = "layers"

\* the neighbours of v in the adjacency graph
ClaimNeighbours(v) == {adjacency[v + 1][n] : n \in 1..Len(adjacency[v + 1])}

RECURSIVE ClaimWithin(_)
\* the vertices that a path of at most k edges joins to the nose
ClaimWithin(k) ==
    IF k = 0 THEN {layering.nose}
    ELSE LET near == ClaimWithin(k - 1)
         IN  near \cup UNION {ClaimNeighbours(v) : v \in near}

\* the edge count of a shortest path from the nose to v
ClaimShortest(v, within) ==
    CHOOSE k \in DOMAIN within :
        v \in within[k] /\ \A j \in DOMAIN within : j < k => ~(v \in within[j])

ClaimDistancesFromNose ==
    LET within == [k \in 0..(Len(mesh_verts) - 1) |-> ClaimWithin(k)]
        reachable == within[Len(mesh_verts) - 1]
    IN  /\ \A v \in ClaimVertices : ClaimZ(layering.nose) <= ClaimZ(v)
        /\ ClaimLayer(0) = {layering.nose}
        /\ ClaimReached = reachable
        /\ Len(layering.dist) = Cardinality(reachable)
        /\ \A v \in reachable : ClaimDistance(v) = ClaimShortest(v, within)

ClaimAdjacentWithinOne ==
    \A v \in ClaimReached : \A u \in ClaimNeighbours(v) :
        /\ u \in ClaimReached
        /\ ClaimDistance(u) - ClaimDistance(v) \in {-1, 0, 1}

\* C14: compute_topological_layers gives distance 0 to the minimum-z vertex
\* and to no other, gives every vertex reachable from it the edge count of
\* a shortest path, gives unreachable vertices no distance; two adjacent
\* reached vertices differ in distance by at most 1
C14_DistancesAreShortestPaths ==
    ClaimLayered => (ClaimDistancesFromNose /\ ClaimAdjacentWithinOne)

\* a tube of four layers: a vertex three edges from the nose, and two
\* adjacent vertices of one layer
C14_Witness ==
    /\ ClaimLayered
    /\ \E v \in ClaimReached : ClaimDistance(v) = 3
    /\ \E v \in ClaimReached : \E u \in ClaimNeighbours(v) :
           ClaimDistance(u) = ClaimDistance(v)

\* a mesh with a vertex that is given no distance
C14_WitnessUnreached ==
    /\ ClaimLayered
    /\ ClaimReached # ClaimVertices
    /\ Cardinality(ClaimReached) >= 2

\* build_vertex_adjacency has just run
ClaimAdjacencyBuilt == pc = "adjacency"

\* u and v follow one another in a face, the last vertex being followed by
\* the first
ClaimConsecutive(u, v) ==
    \E f \in 1..Len(mesh_faces) :
        LET face == mesh_faces[f]
        IN  \E i \in 1..Len(face) :
                LET next == IF i = Len(face) THEN face[1] ELSE face[i + 1]
                IN  \/ face[i] = u /\ next = v
                    \/ face[i] = v /\ next = u

\* C15: the graph build_vertex_adjacency returns is symmetric, has no
\* self-loop and no duplicate neighbour, and u and v are adjacent exactly
\* when u != v and they are consecutive (the wrap-around from the last to
\* the first vertex included) in at least one face
C15_AdjacencyFromFaces ==
    ClaimAdjacencyBuilt =>
        /\ Len(adjacency) = Len(mesh_verts)
        /\ \A v \in ClaimVertices :
               /\ ~(v \in ClaimNeighbours(v))
               /\ Cardinality(ClaimNeighbours(v)) = Len(adjacency[v + 1])
               /\ \A u \in ClaimVertices :
                      /\ u \in ClaimNeighbours(v) <=> v \in ClaimNeighbours(u)
                      /\ u \in ClaimNeighbours(v)
                             <=> (u # v /\ ClaimConsecutive(u, v))
               /\ ClaimNeighbours(v) \subseteq ClaimVertices

\* a face that repeats a vertex and whose last and first vertices are
\* joined by no other pair
C15_Witness ==
    /\ ClaimAdjacencyBuilt
    /\ mesh_faces = << <<0, 2, 2, 3>> >>
    /\ 3 \in ClaimNeighbours(0)

\* build_pm_rings_for_mesh has run
ClaimRingsBuilt == pc = "rings"

\* every slot of the ring holds the vertex v in feet, x on the axis
ClaimBroadcast(ring, v) ==
    /\ Len(ring) = 2 * HalfSlots
    /\ \A s \in 1..Len(ring) : ring[s] = <<ZeroVal, Ft(v[2]), Ft(v[3])>>

\* C16: for a group of exactly one vertex, build_station_vertex_groups and
\* build_pm_rings_for_mesh produce exactly one station, every slot of which
\* holds the vertex's coordinates converted to feet
C16_OneVertexOneStation ==
    (ClaimRingsBuilt /\ Len(mesh_verts) = 1) =>
        /\ pm_rings.error = ""
        /\ Len(grouping.stations) = 1
        /\ Len(pm_rings.rings) = 1
        /\ ClaimBroadcast(pm_rings.rings[1], mesh_verts[1])

\* what the code produces for one vertex: the station twice
ClaimOneVertexTwoStations ==
    (ClaimRingsBuilt /\ Len(mesh_verts) = 1) =>
        /\ pm_rings.error = ""
        /\ grouping.stations = << <<0>>, <<0>> >>
        /\ Len(pm_rings.rings) = 2
        /\ \A n \in 1..2 : ClaimBroadcast(pm_rings.rings[n], mesh_verts[1])

\* the rings of the stations of more than one vertex
ClaimMidRings ==
    {n \in 1..Len(pm_rings.rings) : Len(grouping.stations[n]) > 1}

\* -v, a magnitude below epsilon being 0.0
ClaimNegated(v) ==
    IF v.ip = 0 /\ v.fp < SnapEps THEN ZeroVal ELSE [v EXCEPT !.neg = ~v.neg]

ClaimSnapped(v) == (v.ip = 0 /\ v.fp < SnapEps) => v = ZeroVal

\* C17: every mid ring built by build_pm_rings_for_mesh has exactly 18
\* slots, and for all s in 0..8 slot s+9 holds the negated x and the same
\* y and z as slot s, magnitudes below epsilon being snapped to 0
C17_MidRingMirrored ==
    (ClaimRingsBuilt /\ pm_rings.error = "") =>
        \A n \in ClaimMidRings :
            LET ring == pm_rings.rings[n]
            IN  /\ Len(ring) = 18
                /\ \A s \in 1..9 :
                       /\ ring[s + 9] = <<ClaimNegated(ring[s][1]), ring[s][2],
                                          ring[s][3]>>
                       /\ \A k \in 1..3 : ClaimSnapped(ring[s][k])
                                              /\ ClaimSnapped(ring[s + 9][k])

\* a ring built from a station whose vertices all lie on one side, with a
\* slot off the centerline and a slot on it
C17_Witness ==
    /\ ClaimRingsBuilt
    /\ pm_rings.error = ""
    /\ \E n \in ClaimMidRings :
           /\ Len(grouping.stations[n]) = pm_rings.half_n_max
           /\ \E s \in 1..9 : pm_rings.rings[n][s][1] = ZeroVal
           /\ \E s \in 1..9 : /\ pm_rings.rings[n][s][1] # ZeroVal
                              /\ ~pm_rings.rings[n][s][1].neg
                              /\ pm_rings.rings[n][s + 9][1].neg

\* the x about which build_pm_rings_for_mesh recentres the mesh
ClaimCenterX ==
    LET xs == {mesh_verts[n][1] : n \in 1..Len(mesh_verts)}
        lo == CHOOSE x \in xs : \A y \in xs : x <= y
        hi == CHOOSE x \in xs : \A y \in xs : y <= x
    IN  (lo + hi) \div 2

\* the recentred vertices of station n that pass x >= -epsilon, in the
\* station's order
ClaimHalf(n) ==
    LET station == grouping.stations[n]
        local == [m \in 1..Len(station) |->
                     <<mesh_verts[station[m] + 1][1] - ClaimCenterX,
                       mesh_verts[station[m] + 1][2],
                       mesh_verts[station[m] + 1][3]>>]
        Passes(v) == v[1] >= 0
    IN  SelectSeq(local, Passes)

\* a vertex in feet
ClaimFeet(v) == <<Ft(v[1]), Ft(v[2]), Ft(v[3])>>

\* atan2(p.y, p.x) > atan2(q.y, q.x) for p and q with x >= 0: straight up
\* is the greatest angle, straight down the least, the origin has angle 0,
\* and elsewhere the angle grows with y / x
ClaimAngleGreater(p, q) ==
    LET Up(v) == v[1] = 0 /\ v[2] > 0
        Down(v) == v[1] = 0 /\ v[2] < 0
        Origin(v) == v[1] = 0 /\ v[2] = 0
    IN  IF Up(q) \/ Down(p) THEN FALSE
        ELSE IF Up(p) \/ Down(q) THEN TRUE
        ELSE IF Origin(p) THEN q[2] < 0
        ELSE IF Origin(q) THEN p[2] > 0
        ELSE p[2] * q[1] > q[2] * p[1]

\* slots first, first + 1, ... of the ring hold the vertices 'others' of
\* the half, each once, by descending angle (equal angles in any order)
ClaimSortedRun(ring, half, others, first) ==
    LET run == first..(first + Cardinality(others) - 1)
        Greater(i) == Cardinality({j \in others :
                                      ClaimAngleGreater(half[j], half[i])})
        NotLess(i) == Cardinality({j \in others :
                                      ~ClaimAngleGreater(half[i], half[j])})
    IN  /\ \A p \in run :
               \E i \in others :
                   /\ ring[p] = ClaimFeet(half[i])
                   /\ Greater(i) < p - first + 1
                   /\ p - first + 1 <= NotLess(i)
        /\ \A i \in others :
               Cardinality({p \in run : ring[p] = ClaimFeet(half[i])})
                   = Cardinality({j \in others : half[j] = half[i]})

\* the half of station n in canonical order fills the first slots of ring
ClaimCanonicalOrder(ring, half) ==
    LET all == 1..Len(half)
        cl == {i \in all : half[i][1] = 0}
    IN  IF Cardinality(cl) >= 2
        THEN \E t \in cl : \E b \in cl :
                 /\ \A i \in cl : half[i][2] <= half[t][2]
                 /\ \A i \in cl : half[b][2] <= half[i][2]
                 /\ ring[1] = ClaimFeet(half[t])
                 /\ ClaimSortedRun(ring, half, all \ {t, b}, 2)
                 /\ Cardinality(all \ {t, b}) + 2 <= HalfSlots
                        => ring[Cardinality(all \ {t, b}) + 2] = ClaimFeet(half[b])
        ELSE ClaimSortedRun(ring, half, all, 1)

\* C18: when at least two vertices of a station's half lie on the
\* centerline, the canonical half order starts with the centerline vertex
\* of largest y, ends with the centerline vertex of smallest y and lists
\* the remaining half vertices in between by descending angle atan2(y, x);
\* with fewer than two centerline vertices the order is the whole half by
\* descending angle
C18_CanonicalHalfOrder ==
    (ClaimRingsBuilt /\ pm_rings.error = "") =>
        \A n \in ClaimMidRings :
            ClaimCanonicalOrder(pm_rings.rings[n], ClaimHalf(n))

\* a station with two centerline vertices whose lower one lies above the
\* axis: by angle alone it would not come last
C18_Witness ==
    /\ ClaimRingsBuilt
    /\ pm_rings.error = ""
    /\ \E n \in ClaimMidRings :
           LET half == ClaimHalf(n)
               cl == {i \in 1..Len(half) : half[i][1] = 0}
           IN  /\ Cardinality(cl) = 2
               /\ \A i \in cl : half[i][2] > 0
               /\ \E i \in 1..Len(half) : half[i][1] > 0 /\ half[i][2] < 0

\* a station with no centerline vertex in its half
C18_WitnessNoCenterline ==
    /\ ClaimRingsBuilt
    /\ pm_rings.error = ""
    /\ \E n \in ClaimMidRings :
           \A i \in 1..Len(ClaimHalf(n)) : ClaimHalf(n)[i][1] > 0

\* the stations of more than one vertex
ClaimMidStations ==
    {n \in 1..Len(grouping.stations) : Len(grouping.stations[n]) > 1}

\* no vertex of station n passes the half-space test
ClaimEmptyHalf(n) == ClaimHalf(n) = <<>>

\* the half of station n, the whole station standing for an empty half,
\* has 5 to 9 vertices
ClaimHalfFits(n) ==
    IF ClaimEmptyHalf(n) THEN Len(grouping.stations[n]) \in MinHalf..MaxHalf
    ELSE Len(ClaimHalf(n)) \in MinHalf..MaxHalf

\* C19: when no vertex of a mid station passes the half-space test
\* x >= -epsilon, the whole station is treated as the half and
\* canonicalization proceeds with it rather than failing on the empty half
C19_EmptyHalfFallsBack ==
    (/\ ClaimRingsBuilt
     /\ grouping.error = ""
     /\ \E n \in ClaimMidStations : ClaimEmptyHalf(n)
     /\ \A n \in ClaimMidStations : ClaimHalfFits(n))
        => pm_rings.error = ""

\* what the code does with an empty half: the half-ring count 0 is refused
ClaimEmptyHalfRefused ==
    (/\ ClaimRingsBuilt
     /\ grouping.error = ""
     /\ \E n \in ClaimMidStations : ClaimEmptyHalf(n))
        => pm_rings.error = "ValueError"

----------------------------------------------------------------------------
(* The ring contract in the z-sorted pipeline, checked under SpecGrid      *)

\* station i (from 0) of the emitted grid is a mid station: it has
\* vertices, is not the first, and a later emitted station has vertices
ClaimMidStation(i) ==
    /\ 0 < i
    /\ i < Min2(Len(stations_mesh), target_i)
    /\ stations_mesh[i + 1] # <<>>
    /\ \E n \in (i + 1)..(Min2(Len(stations_mesh), target_i) - 1) :
           stations_mesh[n + 1] # <<>>

\* the number of vertices of the station that are given slots: those with
\* x >= 0, or all of them when there is none
ClaimPlaced(station) ==
    LET NonNeg(v) == v[1] >= 0
    IN  IF SelectSeq(station, NonNeg) = <<>> THEN Len(station)
        ELSE Len(SelectSeq(station, NonNeg))

\* slot j of station i holds the point c
ClaimSlotHolds(i, j, c) ==
    \A k \in 0..2 : ClaimGeoValue(geo_lines, body_index, i, j, k, c[k + 1])

\* the x values that count as the negation of x
ClaimMirrorX(x) ==
    {VNeg(x)} \cup (IF x.ip = 0 /\ x.fp = 0 THEN {ZeroVal} ELSE {})

\* C20: in generate_geo_xyz_literal_from_stations, for every mid station
\* and every half index k < target_j / 2 that receives a vertex, slot
\* k + target_j / 2 holds the negated x and the same y and z as slot k
\* (stated for the even target_j, where target_j / 2 is the half)
C20_MirrorAtHalfOffset ==
    (pc = "geo_done" /\ target_j >= 2 /\ target_j % 2 = 0) =>
        \A i \in 0..(target_i - 1) :
            ClaimMidStation(i) =>
                \A k \in 0..((target_j \div 2) - 1) :
                    k < ClaimPlaced(stations_mesh[i + 1]) =>
                        \E c \in ClaimSlotChoices(stations_mesh[i + 1]) :
                            /\ ClaimSlotHolds(i, k, c)
                            /\ \E x \in ClaimMirrorX(c[1]) :
                                   ClaimSlotHolds(i, k + (target_j \div 2),
                                                  <<x, c[2], c[3]>>)

\* where the code puts the mirror image of slot k: at slot target_j - 1 - k
ClaimMirrorFromTheEnd ==
    (pc = "geo_done" /\ target_j >= 2 /\ target_j % 2 = 0) =>
        \A i \in 0..(target_i - 1) :
            ClaimMidStation(i) =>
                \A k \in 0..((target_j \div 2) - 1) :
                    k < ClaimPlaced(stations_mesh[i + 1]) =>
                        \E c \in ClaimSlotChoices(stations_mesh[i + 1]) :
                            /\ ClaimSlotHolds(i, k, c)
                            /\ ClaimSlotHolds(i, target_j - 1 - k,
                                              <<VNeg(c[1]), c[2], c[3]>>)

----------------------------------------------------------------------------
(* Claims about the z-sorted pipeline, checked under SpecStation           *)

\* build_stations_from_geometry has just run
ClaimStationed == pc = "stationed"

\* no vertex of the group lies below (above) z
ClaimLeastZ(z) == \A n \in 1..Len(verts_centered) : z <= verts_centered[n][3]

ClaimGreatestZ(z) == \A n \in 1..Len(verts_centered) : verts_centered[n][3] <= z

\* the first station is one vertex of least z, the last one vertex of
\* greatest z
ClaimTipAndTail ==
    LET stations == stations_mesh
    IN  /\ Len(stations) >= 2
        /\ Len(stations[1]) = 1
        /\ ClaimLeastZ(stations[1][1][3])
        /\ Len(stations[Len(stations)]) = 1
        /\ ClaimGreatestZ(stations[Len(stations)][1][3])

\* C21 (as claimed): for at least 3 vertices and verts_per_loop >= 1 the
\* first station holds only the minimum-z vertex, the last only the
\* maximum-z vertex, and every station between exactly verts_per_loop
\* vertices
C21_TipLoopsTail ==
    (ClaimStationed /\ Len(verts_centered) >= 3 /\ vpl >= 1) =>
        /\ ClaimTipAndTail
        /\ \A n \in 2..(Len(stations_mesh) - 1) : Len(stations_mesh[n]) = vpl

\* C21 (amended): for at least verts_per_loop + 2 vertices the first
\* station holds only the minimum-z vertex, the last only the maximum-z
\* vertex, every station between exactly verts_per_loop vertices except
\* the last of them, which holds the 1 to verts_per_loop vertices left;
\* for fewer vertices (at least one) one station holds them all
C21_TipLoopsRestTail ==
    (ClaimStationed /\ Len(verts_centered) >= 1 /\ vpl >= 1) =>
        IF Len(verts_centered) >= vpl + 2
        THEN /\ ClaimTipAndTail
             /\ \A n \in 2..(Len(stations_mesh) - 2) :
                    Len(stations_mesh[n]) = vpl
             /\ Len(stations_mesh) >= 3
                    => Len(stations_mesh[Len(stations_mesh) - 1]) \in 1..vpl
        ELSE /\ Len(stations_mesh) = 1
             /\ Len(stations_mesh[1]) = Len(verts_centered)

\* seven vertices in loops of two: tip, 2, 2, 1, tail
C21_Witness ==
    /\ ClaimStationed
    /\ vpl = 2
    /\ Len(verts_centered) = 7
    /\ Len(stations_mesh) = 5
    /\ Len(stations_mesh[4]) = 1
    /\ verts_centered[1][3] > verts_centered[2][3]

RECURSIVE ClaimConcat(_)
\* the stations one after the other
ClaimConcat(stations) ==
    IF stations = <<>> THEN <<>>
    ELSE Head(stations) \o ClaimConcat(Tail(stations))

\* how often v occurs in the list
ClaimCount(list, v) == Cardinality({n \in 1..Len(list) : list[n] = v})

\* b holds the vertices of a, each as often, by ascending z
ClaimSortedByZ(a, b) ==
    /\ Len(a) = Len(b)
    /\ \A n \in 1..Len(a) : ClaimCount(b, a[n]) = ClaimCount(a, a[n])
    /\ \A n \in 1..(Len(b) - 1) : b[n][3] <= b[n + 1][3]

\* 1 below verts_per_loop + 2 vertices, else 2 + ceil((n - 2) / verts_per_loop)
ClaimStationCount(n, loop) ==
    IF n < loop + 2 THEN 1 ELSE 2 + ((n - 2 + loop - 1) \div loop)

\* C29: for every non-empty vertex list and every verts_per_loop >= 1,
\* build_stations_from_geometry returns, the stations one after the other
\* are the vertex list sorted by ascending z (every vertex in exactly one
\* station), and there are 1 station below verts_per_loop + 2 vertices and
\* 2 + ceil((n - 2) / verts_per_loop) otherwise
C29_StationsPartitionSortedVertices ==
    /\ (ClaimStationed /\ verts_centered # <<>> /\ vpl >= 1) =>
           /\ ClaimSortedByZ(verts_centered, ClaimConcat(stations_mesh))
           /\ \A n \in 1..Len(stations_mesh) : stations_mesh[n] # <<>>
           /\ Len(stations_mesh)
                  = ClaimStationCount(Len(verts_centered), vpl)

\* six vertices out of z order in loops of three: tip, 3, 1, tail
C29_Witness ==
    /\ ClaimStationed
    /\ vpl = 3
    /\ Len(verts_centered) = 6
    /\ Len(stations_mesh) = 4
    /\ ClaimConcat(stations_mesh) # verts_centered

\* build_body_block has just run
ClaimBlockBuilt == pc = "block_built"

\* the block holds the line 'P _body/<b>/<name> <n>'
ClaimScalar(name, n) ==
    \E k \in 1..Len(new_block) :
        new_block[k] = S_P_BODY \o Dec(body_index) \o <<"/">> \o name \o <<" ">>
                           \o Dec(n)

\* the geometry lines of the block are those of ni stations of nj slots
ClaimGridShape(ni, nj) ==
    /\ \A i \in 0..(ni - 1) : \A j \in 0..(nj - 1) : \A k \in 0..2 :
           Cardinality(ClaimGeoHits(new_block, body_index, i, j, k)) = 1
    /\ \A n \in 1..Len(new_block) :
           ~startswith(new_block[n], ClaimStationPath(body_index, ni))
    /\ \A i \in 0..(ni - 1) : \A k \in 0..2 :
           ClaimGeoHits(new_block, body_index, i, nj, k) = {}

\* the numbers a dimension line of the model can carry
ClaimDims == 0..(MaxVerts + MaxTargetI + MaxTargetJ + 2)

\* C28: in every block build_body_block produces, the value written as
\* _s_dim never exceeds the value written as _locked/i_count, which is
\* the number of stations emitted, and _r_dim is the number of slots per
\* station of the emitted _geo_xyz lines
C28_DimensionsMatchGrid ==
    ClaimBlockBuilt =>
        \E s \in ClaimDims : \E ni \in ClaimDims : \E nj \in ClaimDims :
            /\ ClaimScalar(<<"_","s","_","d","i","m">>, s)
            /\ ClaimScalar(<<"_","l","o","c","k","e","d","/","i","_","c","o","u","n","t">>, ni)
            /\ ClaimScalar(<<"_","r","_","d","i","m">>, nj)
            /\ s <= ni
            /\ ClaimGridShape(ni, nj)

\* the same without _s_dim, for grids of two slots or more
ClaimCountsMatchGrid ==
    (ClaimBlockBuilt /\ target_j >= 2) =>
        \E ni \in ClaimDims : \E nj \in ClaimDims :
            /\ ClaimScalar(<<"_","l","o","c","k","e","d","/","i","_","c","o","u","n","t">>, ni)
            /\ ClaimScalar(<<"_","r","_","d","i","m">>, nj)
            /\ ClaimGridShape(ni, nj)

----------------------------------------------------------------------------
(* Specification of the block builders of both pipelines: the z-sorted     *)
(* one from the vertices of a group, the topology one from a mesh          *)

InitBlocks == InitStation \/ InitTopo

NextBlocks == NextStation \/ NextTopo

SpecBlocks == InitBlocks /\ [][NextBlocks]_vars

----------------------------------------------------------------------------
(* The radius written in a body block *)

\* the number a printed value stands for: its sign, whole feet, nano-feet
ClaimNumber(token) ==
    LET neg == token # <<>> /\ Head(token) = "-"
        digits == IF neg THEN Tail(token) ELSE token
        dot == CHOOSE n \in 1..Len(digits) : digits[n] = "."
    IN  [neg |-> neg,
         ip |-> NatValue(SubSeq(digits, 1, dot - 1)),
         fp |-> NatValue(SubSeq(digits, dot + 1, Len(digits)))]

\* the block a finished builder has produced, if any
ClaimBlocks ==
    IF pc = "block_built" THEN {new_block}
    ELSE IF pc = "lines_done" THEN {body_lines}
    ELSE IF pc = "template_done" /\ built.error = "" THEN {built.out_lines}
    ELSE {}

ClaimRadiusLine(line) ==
    startswith(line, BodyPrefix(body_index) \o <<"_","p","a","r","t","_","r","a","d"," ">>)

\* a _geo_xyz line of axis 0 or axis 1
ClaimLateralLine(line) ==
    /\ startswith(line, BodyPrefix(body_index) \o <<"_","g","e","o","_","x","y","z","/">>)
    /\ line[Len(line) - Len(LastToken(line)) - 1] \in {"0", "1"}

ClaimPrinted(line) == ClaimNumber(LastToken(line))

\* C22: in every body block that the z-sorted builder, the line builder or
\* the template filler produces, the value written as _part_rad is at least
\* the absolute value of every x and every y written in its _geo_xyz lines
C22_RadiusCoversExtent ==
    \A block \in ClaimBlocks :
        \A n \in 1..Len(block) :
            ClaimRadiusLine(block[n]) =>
                \A m \in 1..Len(block) :
                    ClaimLateralLine(block[m])
                        => MagLeq(ClaimPrinted(block[m]),
                                  ClaimPrinted(block[n]))

\* a block with a radius and a lateral coordinate of at least 'feet' feet
ClaimWideBlock(feet) ==
    \E block \in ClaimBlocks :
        \E n \in 1..Len(block) :
            /\ ClaimRadiusLine(block[n])
            /\ \E m \in 1..Len(block) :
                   /\ ClaimLateralLine(block[m])
                   /\ ClaimPrinted(block[m]).ip >= feet

\* a z-sorted block whose extent exceeds the buffer of its radius
C22_Witness == pc = "block_built" /\ ClaimWideBlock(3)

\* topology blocks whose extent exceeds the buffer of theirs
ClaimWideLines == pc = "lines_done" /\ ClaimWideBlock(1)

ClaimWideTemplate == pc = "template_done" /\ ClaimWideBlock(1)

----------------------------------------------------------------------------
(* The print order of the line builder *)

\* 0, 1, then 10..n-1 ascending, then 2..min(9, n-1) ascending
ClaimPrintOrder(n) ==
    LET upper == IF n > 10 THEN n - 10 ELSE 0
    IN  [m \in 1..n |->
            IF m <= 2 THEN m - 1
            ELSE IF m <= 2 + upper THEN 10 + (m - 3)
            ELSE m - 1 - upper]

\* every index of 0..n-1 exactly once, none outside
ClaimPermutation(order, n) ==
    /\ Len(order) = n
    /\ \A v \in 0..(n - 1) :
          Cardinality({m \in 1..Len(order) : order[m] = v}) = 1

\* one line for every path of the grid, holding the value of its cell, and
\* no other line after the six parameters and the blank line
ClaimEveryCellOnce(lines, body, b, ni, nj) ==
    /\ Len(lines) = 7 + ni * nj * 3
    /\ \A i \in 0..(ni - 1) : \A j \in 0..(nj - 1) : \A k \in 0..2 :
          LET expected == GeoLine(b, i, j, k, ClaimGridValue(body, i, j, k))
          IN  \E n \in 8..Len(lines) : lines[n] = expected

\* C23: _pm_i_print_order(n) and _pm_j_print_order(n) are permutations of
\* 0..n-1 in the order 0, 1, 10..n-1, 2..min(9, n-1), and
\* build_body_block_lines emits every path (i, j, k) of the grid exactly
\* once, with the value of the grid cell
C23_PrintOrderIsPermutation ==
    pc = "lines_done" =>
        /\ ClaimPermutation(_pm_i_print_order(total_stations), total_stations)
        /\ ClaimPermutation(_pm_j_print_order(points_per_ring),
                            points_per_ring)
        /\ _pm_i_print_order(total_stations) = ClaimPrintOrder(total_stations)
        /\ _pm_j_print_order(points_per_ring)
               = ClaimPrintOrder(points_per_ring)
        /\ ClaimEveryCellOnce(body_lines, bodies[body_index + 1], body_index,
                              total_stations, points_per_ring)

\* a grid of more than ten stations and more than ten slots, printed out of
\* ascending order, from more rings than ten
C23_Witness ==
    /\ pc = "lines_done"
    /\ total_stations > 10
    /\ points_per_ring > 10
    /\ Len(bodies[body_index + 1].rings) > 10
    /\ body_lines[8] = GeoLine(body_index, 0, 0, 0, Ft(101))
    /\ \E n \in 8..(Len(body_lines) - 1) :
          /\ startswith(body_lines[n], ClaimGeoPath(body_index, 10, 10, 2))
          /\ startswith(body_lines[n + 1], ClaimGeoPath(body_index, 10, 2, 0))

----------------------------------------------------------------------------
(* The target grid reader *)

\* the integers that the lines of body b for the parameter 'name' carry:
\* the stripped line starts with the parameter's path and its last token is
\* a decimal numeral
ClaimCounts(lines, b, name) ==
    {v \in -9..9 :
        \E n \in 1..Len(lines) :
            /\ startswith(strip(lines[n]),
                          <<"P"," ","_","b","o","d","y","/">> \o Dec(b) \o <<"/","_","l","o","c","k","e","d","/">> \o name)
            /\ LastToken(strip(lines[n]))
                   = (IF v < 0 THEN <<"-">> ELSE <<>>) \o Dec(Abs(v))}

\* the value read for one dimension: that of a line of the body when one
\* with an integer exists, the default otherwise
ClaimDimension(got, lines, b, name, default) ==
    IF ClaimCounts(lines, b, name) = {} THEN got = default
    ELSE got \in ClaimCounts(lines, b, name)

C24_LinesUnchanged == [][pc = "dims" => acf_lines' = acf_lines]_vars

ClaimBothRead ==
    /\ pc = "dims_read"
    /\ body_index = 1
    /\ acf_lines = <<D_I_3, D_I_5, D_J_4>>
    /\ target_i = 5
    /\ target_j = 4

----------------------------------------------------------------------------
(* Truncation of the station list by the grid mapper *)

\* the lines of 'lines' that address station i
ClaimStationLines(lines, b, i) ==
    {lines[n] : n \in {m \in 1..Len(lines) :
                          startswith(lines[m], ClaimStationPath(b, i))}}

\* what the mapper emits for the same stations and a larger target
ClaimWider(t2) ==
    generate_geo_xyz_literal_from_stations(stations_mesh, body_index, t2,
                                           target_j, TRUE)

\* C25: for targets T1 < T2 and every station index i < T1 the values
\* emitted for station i with target_i = T1 are those emitted for it with
\* target_i = T2
C25_TruncationOnlyDrops ==
    pc = "geo_done" =>
        \A t2 \in (target_i + 1)..(MaxTargetI + 1) :
            \A i \in 0..(target_i - 1) :
                ClaimStationLines(geo_lines, body_index, i)
                    = ClaimStationLines(ClaimWider(t2), body_index, i)

\* the last station with a vertex among the first target_i
ClaimLastKept(i) ==
    /\ i < Len(stations_mesh)
    /\ stations_mesh[i + 1] # <<>>
    /\ \A n \in (i + 1)..(Min2(Len(stations_mesh), target_i) - 1) :
          stations_mesh[n + 1] = <<>>

\* what the code does: the stations before the last kept one are emitted
\* alike for both targets
ClaimTruncationKeepsEarlier ==
    pc = "geo_done" =>
        \A t2 \in (target_i + 1)..(MaxTargetI + 1) :
            \A i \in 0..(target_i - 1) :
                ~ClaimLastKept(i) =>
                    ClaimStationLines(geo_lines, body_index, i)
                        = ClaimStationLines(ClaimWider(t2), body_index, i)

----------------------------------------------------------------------------
(* The order of the stations of build_station_vertex_groups *)

\* the distance of the vertices of station n (they share one layer)
ClaimStationDistance(n) == ClaimDistance(grouping.stations[n][1])

\* C26: in every station list returned by build_station_vertex_groups the
\* stations are in strictly increasing distance from the nose, station 0
\* at distance 0 and the tail station beyond every mid station, and no
\* vertex is in two stations
C26_StationsByIncreasingDistance ==
    (ClaimGrouped /\ grouping.error = "") =>
        LET stations == grouping.stations
        IN  /\ ClaimStationDistance(1) = 0
            /\ \A n \in 1..(Len(stations) - 1) :
                  ClaimStationDistance(n) < ClaimStationDistance(n + 1)
            /\ \A n \in 1..Len(stations), m \in 1..Len(stations) :
                  \A a \in 1..Len(stations[n]), b \in 1..Len(stations[m]) :
                      stations[n][a] = stations[m][b] => n = m /\ a = b

\* what the code does: the mid stations are in increasing distance and
\* share no vertex with each other, the nose or the tail
ClaimMidStationsByIncreasingDistance ==
    (ClaimGrouped /\ grouping.error = "") =>
        LET stations == grouping.stations
        IN  /\ ClaimStationDistance(1) = 0
            /\ \A n \in 1..(Len(stations) - 2) :
                  ClaimStationDistance(n) < ClaimStationDistance(n + 1)
            /\ \A n \in 1..(Len(stations) - 1), m \in 1..Len(stations) :
                  \A a \in 1..Len(stations[n]), b \in 1..Len(stations[m]) :
                      (stations[n][a] = stations[m][b] /\ Len(mesh_verts) > 1)
                          => n = m /\ a = b

\* a returned list whose tail station is nearer to the nose than a mid one
ClaimTailBeforeMid ==
    /\ ClaimGrouped
    /\ grouping.error = ""
    /\ Len(mesh_verts) > 1
    /\ \E n \in 2..(Len(grouping.stations) - 1) :
          ClaimStationDistance(Len(grouping.stations)) < ClaimStationDistance(n)

----------------------------------------------------------------------------
(* The canonical half order as a permutation of the half *)

\* the list 'ordered' of mid station n, the one its ring was filled from
ClaimOrdered(n) == CanonicalHalf(ClaimHalf(n))

\* every vertex of the half occurs in 'ordered' as often as in the half,
\* and 'ordered' is as long as the half
ClaimPermutes(ordered, half) ==
    /\ Len(ordered) = Len(half)
    /\ \A i \in 1..Len(half) :
          Cardinality({j \in 1..Len(ordered) : ordered[j] = half[i]})
              = Cardinality({m \in 1..Len(half) : half[m] = half[i]})

\* the left slots of ring n are the ones filled from 'ordered'
ClaimFilledFrom(n) ==
    \A j \in 1..HalfSlots :
        pm_rings.rings[n][j] = LeftRing(ClaimOrdered(n))[j]

\* the centerline vertices of the half of station n are at least two and
\* all equally high
ClaimLevelCenterline(n) ==
    LET half == ClaimHalf(n)
        cl == {i \in 1..Len(half) : half[i][1] = 0}
    IN  /\ Cardinality(cl) >= 2
        /\ \A i \in cl, m \in cl : half[i][2] = half[m][2]

\* C27: the canonical half order of every mid station is a permutation of
\* the station's half vertices, with as many entries as the half has
\* vertices and no vertex twice, also when the centerline vertices share
\* one y
C27_CanonicalOrderIsPermutation ==
    (ClaimRingsBuilt /\ pm_rings.error = "") =>
        \A n \in ClaimMidRings :
            /\ ClaimFilledFrom(n)
            /\ ClaimPermutes(ClaimOrdered(n), ClaimHalf(n))

\* what the code does: a permutation unless the centerline vertices are
\* level, and then the first of them stands at both ends, one entry more
ClaimPermutationUnlessLevel ==
    (ClaimRingsBuilt /\ pm_rings.error = "") =>
        \A n \in ClaimMidRings :
            /\ ClaimFilledFrom(n)
            /\ IF ClaimLevelCenterline(n)
               THEN /\ Len(ClaimOrdered(n)) = Len(ClaimHalf(n)) + 1
                    /\ ClaimOrdered(n)[1]
                           = ClaimOrdered(n)[Len(ClaimOrdered(n))]
               ELSE ClaimPermutes(ClaimOrdered(n), ClaimHalf(n))

----------------------------------------------------------------------------
(* The topology run writes only for indices 0..N-1, the first row of an    *)
(* index wins, and its error paths write nothing                           *)

\* row n names a mesh that is among the bodies built
ClaimFound(n) ==
    \E m \in 1..Len(bodies) : bodies[m].group_name = mesh_rows[n].mesh_name

\* the body indices assigned to meshes that were found
ClaimAssigned ==
    {mesh_rows[n].body_index : n \in {m \in 1..Len(mesh_rows) : ClaimFound(m)}}

\* they are 0, ..., N-1 for some N >= 1
ClaimContiguous ==
    /\ ClaimAssigned # {}
    /\ ClaimAssigned = 0..(Cardinality(ClaimAssigned) - 1)

\* rewrite_acf_bodies has been called
ClaimCalled ==
    pc \in {"rewrite", "scan", "rewrite_open", "rewrite_write",
            "rewrite_done", "failed"}

\* the first row that assigns index i to a mesh that was found
ClaimFirstRow(i) ==
    CHOOSE n \in 1..Len(mesh_rows) :
        /\ ClaimFound(n)
        /\ mesh_rows[n].body_index = i
        /\ \A m \in 1..(n - 1) :
              ~(ClaimFound(m) /\ mesh_rows[m].body_index = i)

\* the description line that row n gives body i
ClaimDescrip(i, n) ==
    BodyLine(i, <<"_","d","e","s","c","r","i","p"," ">> \o
                (IF strip(mesh_rows[n].pm_name) # <<>>
                 THEN strip(mesh_rows[n].pm_name)
                 ELSE mesh_rows[n].mesh_name))

\* the description lines of body i among the lines handed over
ClaimDescrips(i) ==
    {k \in 1..Len(new_block) :
        startswith(new_block[k], BodyPrefix(i) \o <<"_","d","e","s","c","r","i","p"," ">>)}

\* C30: rewrite_acf_bodies is called, and a file written, only if the
\* body indices assigned to the meshes found are exactly 0, ..., N-1; of
\* two rows with one index the first gives the body its name and the later
\* one is skipped; when the body building fails, no body is valid or the
\* indices have a gap, the run returns and no file is written
C30_WritesOnlyForContiguousIndices ==
    (pc # "generate") =>
        /\ (ClaimCalled \/ fs # fs_start) => ClaimContiguous
        /\ ClaimCalled =>
              \A i \in ClaimAssigned :
                  /\ ClaimDescrips(i) # {}
                  /\ \A k \in ClaimDescrips(i) :
                        new_block[k] = ClaimDescrip(i, ClaimFirstRow(i))
        /\ ~ClaimContiguous => (pc = "returned" /\ fs = fs_start)

\* two rows found with index 0 and different names, the file written
C30_Witness ==
    /\ pc = "rewrite_done"
    /\ fs # fs_start
    /\ \E n \in 1..Len(mesh_rows), m \in 1..Len(mesh_rows) :
          /\ n < m
          /\ ClaimFound(n) /\ ClaimFound(m)
          /\ mesh_rows[n].body_index = mesh_rows[m].body_index
          /\ ClaimDescrip(0, n) # ClaimDescrip(0, m)

\* the body building failed and the run returned
ClaimBuildFailed ==
    /\ pc = "returned"
    /\ build_bodies_from_obj(obj_groups, set_iteration).error # ""
    /\ fs = fs_start

\* bodies were built and the indices found have a gap
ClaimGap ==
    /\ pc = "returned"
    /\ bodies # <<>>
    /\ ClaimAssigned # {}
    /\ ~ClaimContiguous

\* bodies were built and no row names one of them
ClaimNoneValid ==
    /\ pc = "returned"
    /\ bodies # <<>>
    /\ mesh_rows # <<>>
    /\ ClaimAssigned = {}

\* the template filler raised: nothing is written
ClaimRaisedWritesNothing ==
    (pc = "raised") => (fs = fs_start /\ ClaimContiguous)

ClaimRaised == pc = "raised"

====
